---- MODULE Spec2Model ----
(***************************************************************************)
(* GuitarEffects: the AudioProcessor session life cycle (StartProcessing,  *)
(* Stop, Cleanup), the detached audio loop thread (AudioLoop) with its     *)
(* capture/render primitives and effect chain, and the parameter store     *)
(* (setters, Reset).                                                       *)
(*                                                                         *)
(* Threads interleave at the granularity of one shared access per step:    *)
(* a read or write of the atomic running flag, a call through one of the   *)
(* interface pointers, a release of one pointer by Cleanup.                *)
(***************************************************************************)
EXTENDS Integers, Sequences, FiniteSets, TLC

\* ------------------------------------------------------------- bounds
\* StartProcessing calls that spawn a thread (so: audio threads that can exist).
MaxStarts == 2
\* Largest capture packet, in frames.
MaxFrames == 2
\* Size of the render endpoint buffer, in frames (GetBufferSize's answer; the
\* render endpoint is the default one in every session, SetupAudio line 94).
RenderBufferSize == 2

Threads == 1..MaxStarts

\* ------------------------------------------------------------- resources
\* The pointers Cleanup releases, in its order (AudioProcessor.cpp 999-1034).
CleanupOrder ==
  << "captureInterface", "renderInterface", "captureClient", "renderClient",
     "captureFormat", "renderFormat", "captureDevice", "renderDevice",
     "deviceEnumerator" >>

\* The steps of SetupAudio that can fail, in its order (AudioProcessor.cpp 92-116);
\* "configure" is the group Initialize/Initialize/GetBufferSize/GetBufferSize (104-112).
SetupOrder ==
  << "captureDevice", "renderDevice", "captureClient", "renderClient",
     "captureFormat", "renderFormat", "configure", "captureInterface",
     "renderInterface" >>

Resources == { CleanupOrder[i] : i \in 1..Len(CleanupOrder) }

\* What AudioLoop requires before it starts (AudioProcessor.cpp 829-830).
LoopResources ==
  { "captureClient", "renderClient", "captureInterface", "renderInterface",
    "captureFormat", "renderFormat" }

\* The per-session I/O resources SetupAudio acquires.
SessionResources == Resources \ { "deviceEnumerator" }

\* ------------------------------------------------------------- effect chain
\* The stages of the chain in the order AudioLoop runs them
\* (AudioProcessor.cpp 894-935); the master volume follows (936-942).
\* ChainSwapped is the chain with overdrive and blues-drive exchanged.
ChainSwapped ==
  << "tremolo", "chorus", "overdrive", "blues", "compressor", "reverb",
     "warm", "wah" >>

ChainOrder ==
  << "tremolo", "chorus", "blues", "overdrive", "compressor", "reverb",
     "warm", "wah" >>

Effects == { "tremolo", "chorus", "blues", "overdrive", "compressor", "reverb",
             "warm", "wah" }

\* Sample widths and channel counts GetMixFormat may report.
BitsValues == { 16, 32 }
ChannelValues == { 1, 2 }


\* ------------------------------------------------------------- parameters
\* A float parameter is held in hundredths (5.0f is 500, 0.02f is 2).

\* Control-surface calls (setters and enable switches) in one behaviour.
MaxCalls == 2

\* Arguments handed to the setters, in hundredths: below every range, inside
\* every range, above every range.
ArgValues == { -100, 50, 10000 }

\* The parameter members of AudioProcessor (AudioProcessor.h 93-153 and the wah
\* block of the header).
ParamNames ==
  { "tremoloRate", "tremoloDepth", "chorusRate", "chorusDepth",
    "chorusFeedback", "chorusWidth", "mainVolume", "overdriveDrive",
    "overdriveThreshold", "overdriveTone", "overdriveMix", "bluesGain",
    "bluesTone", "bluesLevel", "compLevel", "compTone", "compAttackMs",
    "compSustainMs", "reverbSize", "reverbDamping", "reverbWidth", "reverbMix",
    "warmAmount", "warmTone", "warmSaturation", "wahFreq", "wahQ", "wahMix",
    "wahLfoRate", "wahLfoDepth" }

WahParamNames == { "wahFreq", "wahQ", "wahMix", "wahLfoRate", "wahLfoDepth" }

\* The values the constructor's initialiser list (AudioProcessor.cpp 23-31) and
\* the default member initialisers (AudioProcessor.h 100-153) give.
\* mainVolume has neither; see ConstructedMainVolume.
MemberDefaults ==
  [ tremoloRate |-> 500, tremoloDepth |-> 50, chorusRate |-> 150,
    chorusDepth |-> 2, chorusFeedback |-> 30, chorusWidth |-> 50,
    overdriveDrive |-> 300, overdriveThreshold |-> 30, overdriveTone |-> 50,
    overdriveMix |-> 80, bluesGain |-> 150, bluesTone |-> 50,
    bluesLevel |-> 80, compLevel |-> 100, compTone |-> 50,
    compAttackMs |-> 1000, compSustainMs |-> 30000, reverbSize |-> 50,
    reverbDamping |-> 50, reverbWidth |-> 100, reverbMix |-> 30,
    warmAmount |-> 50, warmTone |-> 50, warmSaturation |-> 30 ]

\* WahState::WahState (header, wah block): freq 800, q 10, mix 1, LFO off.
WahDefaults ==
  [ wahFreq |-> 80000, wahQ |-> 1000, wahMix |-> 100, wahLfoRate |-> 0,
    wahLfoDepth |-> 0 ]

\* std::atomic<float> mainVolume (AudioProcessor.h 110) is initialised nowhere
\* in the constructor: it is zero where the language version value-initialises
\* the atomic and indeterminate otherwise (1.0 and 2.5 stand for the values an
\* indeterminate float can turn out to be).
ConstructedMainVolume == { 0, 100, 250 }

Constructed(v) ==
  [ p \in ParamNames |->
      IF p = "mainVolume" THEN v
      ELSE IF p \in WahParamNames THEN WahDefaults[p]
      ELSE MemberDefaults[p] ]

\* What Reset() assigns (AudioProcessor.cpp 768-823). The overdrive members are
\* not among them.
ResetValues ==
  [ tremoloRate |-> 500, tremoloDepth |-> 50, chorusRate |-> 150,
    chorusDepth |-> 2, chorusFeedback |-> 30, chorusWidth |-> 50,
    mainVolume |-> 100, bluesGain |-> 150, bluesTone |-> 50, bluesLevel |-> 80,
    reverbSize |-> 50, reverbDamping |-> 50, reverbWidth |-> 100,
    reverbMix |-> 30, warmAmount |-> 50, warmTone |-> 50,
    warmSaturation |-> 30, compLevel |-> 100, compTone |-> 50,
    compAttackMs |-> 1000, compSustainMs |-> 10000, wahFreq |-> 100000,
    wahQ |-> 1000, wahLfoRate |-> 50, wahLfoDepth |-> 50, wahMix |-> 50 ]

\* fmaxf(lo, fminf(hi, v)) and the header's clamp(v, lo, hi).
Clamp(v, lo, hi) == IF v < lo THEN lo ELSE IF v > hi THEN hi ELSE v

\* What each Set* of AudioProcessor.cpp stores for argument v (1047-1057,
\* 1095-1109, 1127-1156): a clamp to [0,1] or [0,2], a lower bound only for the
\* compressor times, the argument as it is for the rest.
StoredValue(p, v) ==
  CASE p \in { "overdriveThreshold", "overdriveTone", "overdriveMix",
               "bluesTone", "compTone", "reverbSize", "reverbDamping",
               "reverbWidth", "reverbMix", "warmAmount", "warmTone",
               "warmSaturation" } -> Clamp(v, 0, 100)
    [] p \in { "bluesLevel", "compLevel" } -> Clamp(v, 0, 200)
    [] p = "compAttackMs" -> IF v < 10 THEN 10 ELSE v
    [] p = "compSustainMs" -> IF v < 100 THEN 100 ELSE v
    [] OTHER -> v

\* What each setWah* of the header stores: mix and LFO depth are clamped to
\* [0,1]; frequency, Q and LFO rate are stored as they come.
StoredWahValue(p, v) ==
  IF p \in { "wahMix", "wahLfoDepth" } THEN Clamp(v, 0, 100) ELSE v

\* ------------------------------------------------------------- filter state
\* Each piece of effect state is "zero" or "nonzero" (it holds what processing
\* a signal left in it).
StateNames ==
  { "tremoloPhase", "chorusPhase", "chorusDelayBuffer", "overdriveFilterState",
    "bluesFilterState", "compEnv", "compGainSmooth", "compLowState",
    "reverbCombBuffer", "reverbCombFilterStore", "reverbAllpassBuffer",
    "warmLowpassState", "warmHighpassState", "warmSaturatorState", "wahZ",
    "wahLfoPhase", "wahEnv" }

\* After construction: everything zero but compGainSmooth, { 1.0f, 1.0f }
\* (AudioProcessor.h 97-158, WahState::WahState, ReverbComb::ReverbComb).
ConstructedState ==
  [ s \in StateNames |-> IF s = "compGainSmooth" THEN "nonzero" ELSE "zero" ]

\* The state Reset() assigns 0.0f to (AudioProcessor.cpp 776-777, 785, 799-803,
\* 811-815, and resetWahState 758-764).
ResetClears ==
  { "tremoloPhase", "chorusPhase", "bluesFilterState", "warmLowpassState",
    "warmHighpassState", "warmSaturatorState", "compEnv", "compGainSmooth",
    "compLowState", "wahZ", "wahLfoPhase" }

\* The state a run of each effect over a packet writes: ApplyTremolo 129-132
\* (the phase moves when the rate is not zero), ApplyChorus 173-179,
\* ApplyBluesDriver 527, ApplyOverdrive 252, ApplyCompressor 597-636,
\* ApplyReverb with ReverbComb::process and ReverbAllpass::process, ApplyWarm
\* 432, processWah 685-733 (the LFO phase moves when rate and depth are
\* positive).
Writes(e, prm) ==
  CASE e = "tremolo" ->
         IF prm["tremoloRate"] # 0 THEN { "tremoloPhase" } ELSE {}
    [] e = "chorus" ->
         { "chorusDelayBuffer" }
           \cup (IF prm["chorusRate"] # 0 THEN { "chorusPhase" } ELSE {})
    [] e = "blues" -> { "bluesFilterState" }
    [] e = "overdrive" -> { "overdriveFilterState" }
    [] e = "compressor" -> { "compEnv", "compGainSmooth", "compLowState" }
    [] e = "reverb" -> { "reverbCombBuffer", "reverbCombFilterStore",
                         "reverbAllpassBuffer" }
    [] e = "warm" -> { "warmLowpassState" }
    [] e = "wah" ->
         { "wahZ", "wahEnv" }
           \cup (IF prm["wahLfoRate"] > 0 /\ prm["wahLfoDepth"] > 0
                   THEN { "wahLfoPhase" } ELSE {})

\* The filter state after effect e has processed a packet holding a signal.
AfterEffect(e, fs, prm) ==
  [ s \in StateNames |-> IF s \in Writes(e, prm) THEN "nonzero" ELSE fs[s] ]

\* The filter state after the reverb's delay lines were sized: setBuffer
\* (AudioProcessor.h 29-33, 61-65) fills every comb and allpass buffer with
\* zeros and leaves the combs' filterStore alone.
AfterSizing(fs) ==
  [ fs EXCEPT !["reverbCombBuffer"] = "zero", !["reverbAllpassBuffer"] = "zero" ]

VARIABLES
  running,             \* std::atomic<bool> running
  res,                 \* res[r]: pointer r is non-NULL (acquired, not released)
  renderBufferFrames,  \* UINT32 renderBufferFrames
  fmt,                 \* *captureFormat: [bits, channels]
  enabled,             \* enabled[e]: the effect's enabled flag
  ctl,                 \* the control thread: where it is in StartProcessing
  nthreads,            \* audio threads spawned so far
  thr,                 \* thr[t]: audio thread t (pc, locals, what it did this iteration)
  stopped,             \* Stop() was called and no StartProcessing since
  crashed,             \* the process died on a call through a NULL pointer
  params,              \* params[p]: the stored value of parameter p
  fstate,              \* fstate[s]: effect state s is "zero" or "nonzero"
  reverbInitialized,   \* bool reverbInitialized
  calls,               \* control-surface calls made so far
  fx,                  \* one ApplyX call followed sample by sample
  dl,                  \* the delay lines: chorusDelayBuffer, a reverb comb, a reverb allpass
  comp,                \* the compressor on one channel, against unity and the knee
  lfo,                 \* lfo[e]: the LFO phase of effect e, 100 * sampleRate to the turn
  wah,                 \* processWah's statics and the frequency behind wahCoeffs
  gui,                 \* gui.cpp: bindings, rebind in progress, pressed flags, mirrors, inputs held
  acc,                 \* the per-channel state arrays: one ApplyX call, access by access
  od                   \* ApplyOverdrive, sample by sample: the division of the last sample

dsp == << params, fstate, reverbInitialized, calls, fx, dl, comp, lfo, wah, gui, acc, od >>

vars == << running, res, renderBufferFrames, fmt, enabled, ctl, nthreads, thr,
           stopped, crashed, params, fstate, reverbInitialized, calls, fx, dl, comp, lfo, wah, gui, acc, od >>

\* ------------------------------------------------------------- initial state
\* No ApplyX call followed yet: e the effect, active while the call is inside
\* its sample loop, n its numFrames, i the frames done, buf[k] the effects that
\* have stored into frame k of the buffer, snap the parameter members as they
\* were when the call began, used the values the last frame's code read.
IdleFx ==
  [ e |-> "none", on |-> FALSE, active |-> FALSE, n |-> 0, i |-> 0,
    buf |-> [ k \in 1..MaxFrames |-> << >> ], snap |-> Constructed(0),
    used |-> Constructed(0) ]

\* The delay lines followed: the comb of the longest tuning and the allpass of
\* the shortest (the tunings of AudioProcessor.cpp 284-286, in samples at
\* 44.1 kHz).
Tunings == [ combL0 |-> 1116, allpassL3 |-> 225 ]

Lines == DOMAIN Tunings

\* A delay line as its constructor leaves it (AudioProcessor.h 27, 59):
\* bufferSize and bufferIndex, and whether a sample was stored since the
\* storage was last cleared.
ConstructedLine == [ bufferSize |-> 0, bufferIndex |-> 0, stored |-> FALSE ]

\* The delay lines of a constructed processor: sampleRate 44100, an empty
\* chorusDelayBuffer, chorusDelayIndex 0. call, on and frames tell the last
\* call made, whether its effect was enabled and its numFrames; empty, wrote,
\* oob and hung what it did: it ran on a delay line of length 0, it stored into the audio buffer, it read or wrote outside a
\* delay line's storage, it never returned.
ConstructedDl ==
  [ sampleRate |-> 44100, chorusSize |-> 0, chorusDelayIndex |-> 0,
    line |-> [ l \in Lines |-> ConstructedLine ],
    call |-> "none", on |-> FALSE, frames |-> 0, empty |-> FALSE,
    wrote |-> FALSE, oob |-> FALSE, hung |-> FALSE ]

\* The compressor on one channel as constructed (AudioProcessor.h 133-134):
\* compEnv 0, below the knee's lower edge threshold - kneeWidth; compGainSmooth
\* 1. exceeded tells whether the envelope has been above that edge since
\* construction or the last Reset(), applied the smoothed gain that multiplied
\* the last sample.
ConstructedComp ==
  [ env |-> "below", smooth |-> "one", exceeded |-> FALSE, applied |-> "none" ]

\* The same after Reset() (AudioProcessor.cpp 811-815): compEnv 0,
\* compGainSmooth 0.
ResetComp ==
  [ env |-> "below", smooth |-> "zero", exceeded |-> FALSE, applied |-> "none" ]

\* The effects that keep an LFO phase: tremoloPhase, chorusPhase,
\* wahState.lfoPhase, all 0 after construction (AudioProcessor.cpp 23-31 and
\* the WahState constructor).
LfoEffects == { "tremolo", "chorus", "wah" }

ConstructedLfo == [ e \in LfoEffects |-> 0 ]

\* processWah's function-local statics and the biquad coefficients before the
\* first call (AudioProcessor.cpp 675, 718; BiquadCoeffs' constructor in the
\* header): smoothFreq not yet initialised, lastUpdatedFreq 0, wahCoeffs the
\* pass-through values b0 = 1, computed from no frequency. Frequencies are in
\* hundredths of a hertz. n counts the samples processed; moved and updated
\* tell what the last sample did: the test of line 719 was true,
\* updateWahCoefficients was invoked. alphaDivisor is the value of
\* '2.0f * wahState.q' (746) in the last updateWahCoefficients, in hundredths.
ConstructedWah ==
  [ started |-> FALSE, smoothFreq |-> 0, lastUpdatedFreq |-> 0,
    computed |-> FALSE, coeffFreq |-> 0, n |-> 0, moved |-> FALSE,
    updated |-> FALSE, alphaDivisor |-> 0 ]

\* ApplyOverdrive, sample by sample: n samples processed; the branch the last
\* one took at line 220 ("clean" or "drive", "none" before the first) and the
\* divisor of that branch's division (222 or 227), in thousandths.
IdleOverdrive == [ n |-> 0, branch |-> "none", divisor |-> 0 ]

\* ------------------------------------------------------------------- gui
\* gui.cpp: the actions of actions[] by index, 'Reset All' last; each toggle
\* action flips the mirror of one effect (handleAction, cases 0 to 6).
NUM_ACTIONS == 8
GuiActions == 0 .. NUM_ACTIONS - 1
ResetAll == NUM_ACTIONS - 1
ToggleEffect ==
  << "tremolo", "chorus", "overdrive", "reverb", "warm", "blues", "compressor" >>
MirrorEffects == { ToggleEffect[k] : k \in 1 .. NUM_ACTIONS - 1 }

\* defaultKeys: 'T', 'C', 'O', 'V', 'W', 'B', 'P', 'R' as virtual-key codes.
defaultKeys == << 84, 67, 79, 86, 87, 66, 80, 82 >>

\* The inputs the user has at hand: three keys, the left mouse button
\* (VK_LBUTTON) and the A button of the first gamepad (XINPUT_GAMEPAD_A).
Binding(t, c) == [ type |-> t, keyOrButton |-> c ]
Keys == { Binding("Keyboard", c) : c \in { 84, 80, 82 } }
MouseButtons == { Binding("Mouse", 1) }
PadButtons == { Binding("Joystick", 4096) }
Inputs == Keys \cup MouseButtons \cup PadButtons

\* Inputs held down at once, and rebinds started in one behaviour.
MaxHeld == 2
MaxRebinds == 1

\* The GUI after WM_CREATE: the default bindings, no rebind under way, every
\* mirror false, g_prevJoyState and g_actionPressed zeroed. held is what the
\* user holds down, repeating the key whose WM_KEYDOWN the keyboard repeats
\* (the key pressed last, while it is held); rebinds counts the Rebind
\* commands. firedIn[x] holds the actions handleAction was invoked for by
\* input x since x went down, refired that one of them was invoked a second
\* time in the same hold, missed that a press of a bound input, outside a
\* rebind, invoked no action at all.
ConstructedGui ==
  [ keyBindings |-> [ i \in GuiActions |-> Binding("Keyboard", defaultKeys[i + 1]) ],
    rebindingAction |-> -1,
    g_actionPressed |-> [ i \in GuiActions |-> FALSE ],
    mirror |-> [ e \in MirrorEffects |-> FALSE ],
    g_prevJoyState |-> {},
    held |-> {},
    repeating |-> {},
    rebinds |-> 0,
    firedIn |-> [ x \in Inputs |-> {} ],
    refired |-> FALSE,
    missed |-> FALSE ]

\* ------------------------------------------------- per-channel state arrays
\* overdriveFilterState, bluesFilterState, compEnv, compGainSmooth,
\* compLowState, warmLowpassState: float[2] each (AudioProcessor.h 118-158).
StateArrayLength == 2
StateArrayEffects == { "overdrive", "blues", "compressor", "warm" }

\* Channel counts of a capture format beyond stereo: GetMixFormat reports what
\* the endpoint has, and SetupAudio takes it as it comes.
MaxChannels == 3

\* One ApplyX call of an effect with per-channel state, followed sample by
\* sample: the frame i and the channel ch about to be processed, the index
\* the last sample used into the state arrays (-1: it used none), and whether
\* an access fell outside an array.
IdleAccess ==
  [ e |-> "none", n |-> 0, i |-> 0, ch |-> 0, index |-> -1, outside |-> FALSE ]

NoThread ==
  [ pc |-> "none", numFramesAvailable |-> 0, numFramesPadding |-> 0,
    stage |-> 0, capHeld |-> FALSE, gotRender |-> FALSE, fault |-> FALSE,
    committed |-> FALSE, volumeApplied |-> FALSE, prevApplied |-> "none",
    lastApplied |-> "none", skipped |-> FALSE, isFloat |-> FALSE,
    vol |-> 0, totalSamples |-> 0 ]

IdleCtl == [ pc |-> "idle", idx |-> 0, ret |-> "none", outcome |-> "none",
             reported |-> FALSE, entryThreads |-> 0 ]

\* After the constructor (AudioProcessor.cpp 23-31, AudioProcessor.h 100-158):
\* every pointer NULL, running false, every effect disabled.
Init ==
  /\ running = FALSE
  /\ res = [ r \in Resources |-> FALSE ]
  /\ renderBufferFrames = 0
  /\ fmt = [ bits |-> 32, channels |-> 2 ]
  /\ enabled = [ e \in Effects |-> FALSE ]
  /\ ctl = IdleCtl
  /\ nthreads = 0
  /\ thr = [ t \in Threads |-> NoThread ]
  /\ stopped = FALSE
  /\ crashed = FALSE
  /\ params \in { Constructed(v) : v \in ConstructedMainVolume }
  /\ fstate = ConstructedState
  /\ reverbInitialized = FALSE
  /\ calls = 0
  /\ fx = IdleFx
  /\ od = IdleOverdrive
  /\ acc = IdleAccess
  /\ gui = ConstructedGui
  /\ wah = ConstructedWah
  /\ lfo = ConstructedLfo
  /\ comp = ConstructedComp
  /\ dl = ConstructedDl

\* ------------------------------------------------------------- control thread
\* StartProcessing, lines 961-964: if (running) { Stop(); Sleep(100); }.
StartProcessingEnter ==
  /\ ~crashed
  /\ ctl.pc = "idle"
  /\ nthreads < MaxStarts
  /\ ctl' = [ IdleCtl EXCEPT !.pc = IF running THEN "sp_stop" ELSE "cleanup",
                             !.ret = "init", !.entryThreads = nthreads ]
  /\ stopped' = FALSE
  /\ UNCHANGED << running, res, renderBufferFrames, fmt, enabled, dsp, nthreads, thr,
                  crashed >>

\* Stop() called from StartProcessing (962, 986-989): running = false, then sleeps.
StartProcessingStop ==
  /\ ~crashed
  /\ ctl.pc = "sp_stop"
  /\ running' = FALSE
  /\ ctl' = [ ctl EXCEPT !.pc = "cleanup" ]
  /\ UNCHANGED << res, renderBufferFrames, fmt, enabled, dsp, nthreads, thr, stopped,
                  crashed >>

\* Stop() called by the application (main.cpp 48): running = false; Sleep(100).
Stop ==
  /\ ~crashed
  /\ ctl.pc = "idle"
  /\ running' = FALSE
  /\ stopped' = TRUE
  /\ UNCHANGED << res, renderBufferFrames, fmt, enabled, dsp, ctl, nthreads, thr,
                  crashed >>

\* Cleanup, lines 992-998: running = false and the clients are stopped.
CleanupBegin ==
  /\ ~crashed
  /\ ctl.pc = "cleanup"
  /\ running' = FALSE
  /\ ctl' = [ ctl EXCEPT !.pc = "release", !.idx = 1 ]
  /\ UNCHANGED << res, renderBufferFrames, fmt, enabled, dsp, nthreads, thr, stopped,
                  crashed >>

\* Cleanup, lines 999-1034: one pointer is released and set to NULL.
CleanupRelease ==
  /\ ~crashed
  /\ ctl.pc = "release"
  /\ res' = [ res EXCEPT ![CleanupOrder[ctl.idx]] = FALSE ]
  /\ ctl' = IF ctl.idx < Len(CleanupOrder)
              THEN [ ctl EXCEPT !.idx = ctl.idx + 1 ]
              ELSE [ ctl EXCEPT !.pc = ctl.ret, !.idx = 0 ]
  /\ UNCHANGED << running, renderBufferFrames, fmt, enabled, dsp, nthreads, thr,
                  stopped, crashed >>

\* StartProcessing, lines 967-974: Initialize() when there is no enumerator;
\* its failure is reported and StartProcessing returns.
StartProcessingInitialize ==
  /\ ~crashed
  /\ ctl.pc = "init"
  /\ IF res["deviceEnumerator"]
       THEN /\ ctl' = [ ctl EXCEPT !.pc = "setup", !.idx = 1 ]
            /\ UNCHANGED res
       ELSE \E ok \in BOOLEAN :
              IF ok
                THEN /\ res' = [ res EXCEPT !["deviceEnumerator"] = TRUE ]
                     /\ ctl' = [ ctl EXCEPT !.pc = "setup", !.idx = 1 ]
                ELSE /\ ctl' = [ ctl EXCEPT !.pc = "return", !.outcome = "failed",
                                            !.reported = TRUE ]
                     /\ UNCHANGED res
  /\ UNCHANGED << running, renderBufferFrames, fmt, enabled, dsp, nthreads, thr,
                  stopped, crashed >>

\* SetupAudio, lines 92-117: one acquisition (or the configure group), which
\* succeeds or fails; a failure returns at once, keeping what was acquired.
SetupAudioStep ==
  /\ ~crashed
  /\ ctl.pc = "setup"
  /\ LET step == SetupOrder[ctl.idx] IN
     \E ok \in BOOLEAN :
       IF ok
         THEN /\ res' = IF step = "configure" THEN res
                        ELSE [ res EXCEPT ![step] = TRUE ]
              /\ IF step = "captureFormat"
                   THEN \E b \in BitsValues, c \in ChannelValues :
                          fmt' = [ bits |-> b, channels |-> c ]
                   ELSE UNCHANGED fmt
              /\ renderBufferFrames' =
                   IF step = "configure" THEN RenderBufferSize
                   ELSE renderBufferFrames
              /\ ctl' = IF ctl.idx < Len(SetupOrder)
                          THEN [ ctl EXCEPT !.idx = ctl.idx + 1 ]
                          ELSE [ ctl EXCEPT !.pc = "spawn", !.idx = 0 ]
         ELSE /\ ctl' = [ ctl EXCEPT !.pc = "cleanup", !.ret = "report",
                                     !.idx = 0 ]
              /\ UNCHANGED << res, fmt, renderBufferFrames >>
  /\ UNCHANGED << running, enabled, dsp, nthreads, thr, stopped, crashed >>

\* StartProcessing, lines 976-979: the audio thread is created and detached.
StartProcessingSpawn ==
  /\ ~crashed
  /\ ctl.pc = "spawn"
  /\ nthreads' = nthreads + 1
  /\ thr' = [ thr EXCEPT ![nthreads + 1] = [ NoThread EXCEPT !.pc = "start" ] ]
  /\ ctl' = [ ctl EXCEPT !.pc = "return", !.outcome = "started" ]
  /\ UNCHANGED << running, res, renderBufferFrames, fmt, enabled, dsp, stopped,
                  crashed >>

\* StartProcessing, lines 981-982: after the second Cleanup the failure is shown.
StartProcessingReport ==
  /\ ~crashed
  /\ ctl.pc = "report"
  /\ ctl' = [ ctl EXCEPT !.pc = "return", !.outcome = "failed", !.reported = TRUE ]
  /\ UNCHANGED << running, res, renderBufferFrames, fmt, enabled, dsp, nthreads, thr,
                  stopped, crashed >>

\* StartProcessing returns to its caller.
StartProcessingReturn ==
  /\ ~crashed
  /\ ctl.pc = "return"
  /\ ctl' = [ ctl EXCEPT !.pc = "idle" ]
  /\ UNCHANGED << running, res, renderBufferFrames, fmt, enabled, dsp, nthreads, thr,
                  stopped, crashed >>

\* ------------------------------------------------------------- audio thread
\* A call through a NULL pointer ends the process (access violation).
Crash ==
  /\ crashed' = TRUE
  /\ UNCHANGED << running, res, renderBufferFrames, fmt, enabled, dsp, ctl, nthreads,
                  thr, stopped >>

At(t, where) == ~crashed /\ thr[t].pc = where

\* What a thread remembers of the iteration in progress, cleared when the next starts.
FreshIteration(r) ==
  [ r EXCEPT !.numFramesAvailable = 0, !.numFramesPadding = 0, !.stage = 0,
             !.capHeld = FALSE, !.gotRender = FALSE, !.committed = FALSE,
             !.volumeApplied = FALSE, !.prevApplied = "none",
             !.lastApplied = "none", !.skipped = FALSE, !.isFloat = FALSE,
             !.vol = 0, !.totalSamples = 0 ]

\* AudioLoop, lines 828-835: a missing interface or format ends the thread.
AudioLoopStart(t) ==
  /\ At(t, "start")
  /\ IF \A r \in LoopResources : res[r]
       THEN /\ thr' = [ thr EXCEPT ![t].pc = "capture_start" ]
            /\ UNCHANGED running
       ELSE /\ running' = FALSE
            /\ thr' = [ thr EXCEPT ![t].pc = "done" ]
  /\ UNCHANGED << res, renderBufferFrames, fmt, enabled, dsp, ctl, nthreads, stopped,
                  crashed >>

\* AudioLoop, lines 838-844: captureClient->Start().
AudioLoopCaptureStart(t) ==
  /\ At(t, "capture_start")
  /\ IF ~res["captureClient"] THEN Crash
     ELSE /\ \E ok \in BOOLEAN :
               IF ok
                 THEN /\ thr' = [ thr EXCEPT ![t].pc = "render_start" ]
                      /\ UNCHANGED running
                 ELSE /\ running' = FALSE
                      /\ thr' = [ thr EXCEPT ![t].pc = "done" ]
          /\ UNCHANGED << res, renderBufferFrames, fmt, enabled, dsp, ctl, nthreads,
                          stopped, crashed >>

\* AudioLoop, lines 845-852: renderClient->Start(); on failure captureClient->Stop().
AudioLoopRenderStart(t) ==
  /\ At(t, "render_start")
  /\ IF ~res["renderClient"] THEN Crash
     ELSE \E ok \in BOOLEAN :
            IF ok
              THEN /\ thr' = [ thr EXCEPT ![t].pc = "set_running" ]
                   /\ UNCHANGED << running, res, renderBufferFrames, fmt, enabled, dsp,
                                   ctl, nthreads, stopped, crashed >>
              ELSE IF ~res["captureClient"] THEN Crash
                   ELSE /\ running' = FALSE
                        /\ thr' = [ thr EXCEPT ![t].pc = "done" ]
                        /\ UNCHANGED << res, renderBufferFrames, fmt, enabled, dsp, ctl,
                                        nthreads, stopped, crashed >>

\* AudioLoop, line 853: running = true.
AudioLoopSetRunning(t) ==
  /\ At(t, "set_running")
  /\ running' = TRUE
  /\ thr' = [ thr EXCEPT ![t].pc = "loop" ]
  /\ UNCHANGED << res, renderBufferFrames, fmt, enabled, dsp, ctl, nthreads, stopped,
                  crashed >>

\* AudioLoop, line 854: while (running).
AudioLoopTest(t) ==
  /\ At(t, "loop")
  /\ thr' = [ thr EXCEPT ![t] =
                IF running THEN [ FreshIteration(@) EXCEPT !.pc = "iface" ]
                ELSE [ @ EXCEPT !.pc = "exit" ] ]
  /\ UNCHANGED << running, res, renderBufferFrames, fmt, enabled, dsp, ctl, nthreads,
                  stopped, crashed >>

\* AudioLoop, lines 855-858: without both interfaces, Sleep(1) and continue.
AudioLoopCheckInterfaces(t) ==
  /\ At(t, "iface")
  /\ thr' = [ thr EXCEPT ![t].pc =
                IF res["captureInterface"] /\ res["renderInterface"]
                  THEN "packet" ELSE "loop" ]
  /\ UNCHANGED << running, res, renderBufferFrames, fmt, enabled, dsp, ctl, nthreads,
                  stopped, crashed >>

\* AudioLoop, lines 859-865 and 950-952: GetNextPacketSize; a failure breaks,
\* an empty packet sleeps and polls again.
AudioLoopGetNextPacketSize(t) ==
  /\ At(t, "packet")
  /\ IF ~res["captureInterface"] THEN Crash
     ELSE /\ \E hr \in { "fail", "empty", "packet" } :
               thr' = [ thr EXCEPT ![t] =
                 CASE hr = "fail" -> [ @ EXCEPT !.pc = "exit", !.fault = TRUE ]
                   [] hr = "empty" -> [ @ EXCEPT !.pc = "loop" ]
                   [] hr = "packet" -> [ @ EXCEPT !.pc = "get_buffer" ] ]
          /\ UNCHANGED << running, res, renderBufferFrames, fmt, enabled, dsp, ctl,
                          nthreads, stopped, crashed >>

\* AudioLoop, lines 866-874: capture GetBuffer; a failure breaks; no frames (or
\* no data) ends the iteration.
AudioLoopCaptureGetBuffer(t) ==
  /\ At(t, "get_buffer")
  /\ IF ~res["captureInterface"] THEN Crash
     ELSE /\ \/ thr' = [ thr EXCEPT ![t].pc = "exit", ![t].fault = TRUE ]
             \/ \E n \in 0..MaxFrames :
                  thr' = [ thr EXCEPT ![t] =
                    IF n > 0
                      THEN [ @ EXCEPT !.pc = "padding", !.numFramesAvailable = n,
                                      !.capHeld = TRUE ]
                      ELSE [ @ EXCEPT !.pc = "loop" ] ]
          /\ UNCHANGED << running, res, renderBufferFrames, fmt, enabled, dsp, ctl,
                          nthreads, stopped, crashed >>

\* Unsigned arithmetic wraps modulo 2^UintBits (UINT32 in the source; 30 bits
\* here, the widest power of two TLC's integers hold).
UintBits == 30
UintModulus == 2 ^ UintBits

\* Line 882, unsigned: renderBufferFrames - numFramesPadding.
NumFramesAvailableForRender(bufferFrames, padding) ==
  (bufferFrames - padding) % UintModulus

\* The test with its comparison off by one (> for >=, one frame too many let through).
HeadroomOffByOne(bufferFrames, padding, frames) ==
  NumFramesAvailableForRender(bufferFrames, padding) + 1 >= frames

\* Line 883: numFramesAvailableForRender >= numFramesAvailable.
HeadroomOK(bufferFrames, padding, frames) ==
  NumFramesAvailableForRender(bufferFrames, padding) >= frames

\* GetCurrentPadding with the failure path breaking without the ReleaseBuffer
\* of line 879.
AudioLoopGetCurrentPaddingNoRelease(t) ==
  /\ At(t, "padding")
  /\ IF ~res["renderClient"] THEN Crash
     ELSE \/ /\ thr' = [ thr EXCEPT ![t].pc = "exit", ![t].fault = TRUE ]
             /\ UNCHANGED << running, res, renderBufferFrames, fmt, enabled, dsp,
                             ctl, nthreads, stopped, crashed >>
          \/ /\ \E p \in 0..renderBufferFrames :
                  thr' = [ thr EXCEPT ![t] =
                    IF HeadroomOK(renderBufferFrames, p, @.numFramesAvailable)
                      THEN [ @ EXCEPT !.pc = "render_get", !.numFramesPadding = p ]
                      ELSE [ @ EXCEPT !.pc = "cap_release", !.numFramesPadding = p,
                                      !.skipped = TRUE ] ]
             /\ UNCHANGED << running, res, renderBufferFrames, fmt, enabled, dsp, ctl,
                             nthreads, stopped, crashed >>

\* AudioLoop, lines 875-883: GetCurrentPadding; a failure releases the capture
\* buffer and breaks; otherwise the headroom decides whether to render.
AudioLoopGetCurrentPadding(t) ==
  /\ At(t, "padding")
  /\ IF ~res["renderClient"] THEN Crash
     ELSE \/ IF ~res["captureInterface"] THEN Crash
             ELSE /\ thr' = [ thr EXCEPT ![t].pc = "exit", ![t].fault = TRUE,
                                         ![t].capHeld = FALSE ]
                  /\ UNCHANGED << running, res, renderBufferFrames, fmt, enabled, dsp,
                                  ctl, nthreads, stopped, crashed >>
          \/ /\ \E p \in 0..renderBufferFrames :
                  thr' = [ thr EXCEPT ![t] =
                    IF HeadroomOK(renderBufferFrames, p, @.numFramesAvailable)
                      THEN [ @ EXCEPT !.pc = "render_get", !.numFramesPadding = p ]
                      ELSE [ @ EXCEPT !.pc = "cap_release", !.numFramesPadding = p,
                                      !.skipped = TRUE ] ]
             /\ UNCHANGED << running, res, renderBufferFrames, fmt, enabled, dsp, ctl,
                             nthreads, stopped, crashed >>

\* AudioLoop, lines 884-891: render GetBuffer; a failure releases the capture
\* buffer and breaks; a NULL buffer skips the rendering.
AudioLoopRenderGetBuffer(t) ==
  /\ At(t, "render_get")
  /\ IF ~res["renderInterface"] THEN Crash
     ELSE \/ IF ~res["captureInterface"] THEN Crash
             ELSE /\ thr' = [ thr EXCEPT ![t].pc = "exit", ![t].fault = TRUE,
                                         ![t].capHeld = FALSE ]
                  /\ UNCHANGED << running, res, renderBufferFrames, fmt, enabled, dsp,
                                  ctl, nthreads, stopped, crashed >>
          \/ /\ \E data \in BOOLEAN :
                  thr' = [ thr EXCEPT ![t] =
                    IF data THEN [ @ EXCEPT !.pc = "copy", !.gotRender = TRUE ]
                    ELSE [ @ EXCEPT !.pc = "cap_release" ] ]
             /\ UNCHANGED << running, res, renderBufferFrames, fmt, enabled, dsp, ctl,
                             nthreads, stopped, crashed >>

\* AudioLoop, lines 892-893: the packet is copied (captureFormat->nBlockAlign);
\* only a 32-bit format goes through the chain.
AudioLoopCopy(t) ==
  /\ At(t, "copy")
  /\ IF ~res["captureFormat"] THEN Crash
     ELSE /\ thr' = [ thr EXCEPT ![t] =
               IF fmt.bits = 32
                 THEN [ @ EXCEPT !.pc = "effect", !.stage = 1, !.isFloat = TRUE ]
                 ELSE [ @ EXCEPT !.pc = "render_release" ] ]
          /\ UNCHANGED << running, res, renderBufferFrames, fmt, enabled, dsp, ctl,
                          nthreads, stopped, crashed >>

\* The guard with the test of the channel count left out.
EffectRunsOnMono(e) ==
  /\ enabled[e]
  /\ res["captureFormat"]

\* The guard with the test of the effect's flag left out.
EffectRunsFlagIgnored(e) ==
  /\ res["captureFormat"]
  /\ (e \in { "reverb", "wah" } => fmt.channels >= 2)

\* Whether the stage's effect processes the buffer: its flag is set, the format
\* is there (the guard at the head of every ApplyX, lines 121, 137, 184, 276,
\* 361, 456, 560, 663), and reverb and wah want two channels (279, 916).
EffectRuns(e) ==
  /\ enabled[e]
  /\ res["captureFormat"]
  /\ (e \in { "reverb", "wah" } => fmt.channels >= 2)

\* AudioLoop, lines 894-935: the next stage of the chain. The flag is read when
\* the stage is reached (the outer test of lines 895-914 and the one inside
\* ApplyX read it twice in a row; a clear between the two skips the effect as a
\* clear before the first does).
AudioLoopEffect(t) ==
  /\ At(t, "effect")
  /\ LET r == thr[t]
         e == ChainOrder[r.stage]
         last == r.stage = Len(ChainOrder)
     IN /\ thr' = [ thr EXCEPT ![t] =
             [ r EXCEPT !.prevApplied = IF EffectRuns(e) THEN r.lastApplied
                                        ELSE r.prevApplied,
                        !.lastApplied = IF EffectRuns(e) THEN e
                                        ELSE r.lastApplied,
                        !.stage = IF last THEN 0 ELSE r.stage + 1,
                        !.pc = IF last THEN "volume" ELSE "effect" ] ]
        /\ fstate' = IF EffectRuns(e) THEN AfterEffect(e, fstate, params)
                     ELSE fstate
        /\ reverbInitialized' = (reverbInitialized
                                   \/ (e = "reverb" /\ EffectRuns(e)))
  /\ UNCHANGED << running, res, renderBufferFrames, fmt, enabled, ctl, nthreads,
                  stopped, crashed, params, calls, fx, dl, comp, lfo, wah, gui, acc, od >>

\* The same step with the scaling loop left out.
AudioLoopVolumeSkipped(t) ==
  /\ At(t, "volume")
  /\ thr' = [ thr EXCEPT ![t].pc = "render_release" ]
  /\ UNCHANGED << running, res, renderBufferFrames, fmt, enabled, dsp, ctl, nthreads,
                  stopped, crashed >>

\* The same step with the loop running over the frames instead of the samples.
AudioLoopVolumeFramesOnly(t) ==
  /\ At(t, "volume")
  /\ IF ~res["captureFormat"] THEN Crash
     ELSE /\ thr' = [ thr EXCEPT ![t].pc = "render_release",
                                 ![t].prevApplied = thr[t].lastApplied,
                                 ![t].lastApplied = "volume",
                                 ![t].volumeApplied = TRUE,
                                 ![t].vol = params["mainVolume"],
                                 ![t].totalSamples = thr[t].numFramesAvailable ]
          /\ UNCHANGED << running, res, renderBufferFrames, fmt, enabled, dsp, ctl,
                          nthreads, stopped, crashed >>

\* AudioLoop, lines 936-942: mainVolume is read once (937) and each of the
\* numFramesAvailable * nChannels samples is multiplied by it.
AudioLoopVolume(t) ==
  /\ At(t, "volume")
  /\ IF ~res["captureFormat"] THEN Crash
     ELSE /\ thr' = [ thr EXCEPT ![t].pc = "render_release",
                                 ![t].prevApplied = thr[t].lastApplied,
                                 ![t].lastApplied = "volume",
                                 ![t].volumeApplied = TRUE,
                                 ![t].vol = params["mainVolume"],
                                 ![t].totalSamples =
                                    thr[t].numFramesAvailable * fmt.channels ]
          /\ UNCHANGED << running, res, renderBufferFrames, fmt, enabled, dsp, ctl,
                          nthreads, stopped, crashed >>

\* AudioLoop, line 944: render ReleaseBuffer commits the buffer.
AudioLoopRenderRelease(t) ==
  /\ At(t, "render_release")
  /\ IF ~res["renderInterface"] THEN Crash
     ELSE /\ thr' = [ thr EXCEPT ![t].pc = "cap_release", ![t].committed = TRUE ]
          /\ UNCHANGED << running, res, renderBufferFrames, fmt, enabled, dsp, ctl,
                          nthreads, stopped, crashed >>

\* AudioLoop, line 947: capture ReleaseBuffer ends the iteration.
AudioLoopCaptureRelease(t) ==
  /\ At(t, "cap_release")
  /\ IF ~res["captureInterface"] THEN Crash
     ELSE /\ thr' = [ thr EXCEPT ![t].pc = "loop", ![t].capHeld = FALSE ]
          /\ UNCHANGED << running, res, renderBufferFrames, fmt, enabled, dsp, ctl,
                          nthreads, stopped, crashed >>

\* AudioLoop, lines 954-958: after the loop the clients still there are stopped
\* and the thread ends; nothing is released and running is not written.
AudioLoopExit(t) ==
  /\ At(t, "exit")
  /\ thr' = [ thr EXCEPT ![t].pc = "done" ]
  /\ UNCHANGED << running, res, renderBufferFrames, fmt, enabled, dsp, ctl, nthreads,
                  stopped, crashed >>

AudioStep(t) ==
  \/ AudioLoopStart(t)
  \/ AudioLoopCaptureStart(t)
  \/ AudioLoopRenderStart(t)
  \/ AudioLoopSetRunning(t)
  \/ AudioLoopTest(t)
  \/ AudioLoopCheckInterfaces(t)
  \/ AudioLoopGetNextPacketSize(t)
  \/ AudioLoopCaptureGetBuffer(t)
  \/ AudioLoopGetCurrentPadding(t)
  \/ AudioLoopRenderGetBuffer(t)
  \/ AudioLoopCopy(t)
  \/ AudioLoopEffect(t)
  \/ AudioLoopVolume(t)
  \/ AudioLoopRenderRelease(t)
  \/ AudioLoopCaptureRelease(t)
  \/ AudioLoopExit(t)

\* ------------------------------------------------------------- enabled flags
\* SetTremoloEnabled, SetChorusEnabled, SetBluesEnabled, SetOverdriveEnabled,
\* SetCompressorEnabled, SetReverbEnabled, SetWarmEnabled, setWahEnabled: the
\* flag is stored as given.
SetEnabled(e, b) ==
  /\ ~crashed
  /\ calls < MaxCalls
  /\ calls' = calls + 1
  /\ enabled' = [ enabled EXCEPT ![e] = b ]
  /\ UNCHANGED << running, res, renderBufferFrames, fmt, ctl, nthreads, thr,
                  stopped, crashed, params, fstate, reverbInitialized, fx, dl, comp, lfo, wah, gui, acc, od >>

\* The Set* value setters of AudioProcessor.cpp.
SetParameter(p, v) ==
  /\ ~crashed
  /\ calls < MaxCalls
  /\ calls' = calls + 1
  /\ params' = [ params EXCEPT ![p] = StoredValue(p, v) ]
  /\ UNCHANGED << running, res, renderBufferFrames, fmt, enabled, ctl, nthreads,
                  thr, stopped, crashed, fstate, reverbInitialized, fx, dl, comp, lfo, wah, gui, acc, od >>

\* The setWah* value setters of the header.
SetWahParameter(p, v) ==
  /\ ~crashed
  /\ calls < MaxCalls
  /\ calls' = calls + 1
  /\ params' = [ params EXCEPT ![p] = StoredWahValue(p, v) ]
  /\ UNCHANGED << running, res, renderBufferFrames, fmt, enabled, ctl, nthreads,
                  thr, stopped, crashed, fstate, reverbInitialized, fx, dl, comp, lfo, wah, gui, acc, od >>

\* Reset() (AudioProcessor.cpp 767-825): the listed parameters get the listed
\* values, every enabled flag but overdriveEnabled is cleared, the listed state
\* is zeroed and reverbInitialized is cleared. ResetStores is what it stores,
\* whoever calls it.
ResetStores ==
  /\ params' = [ p \in ParamNames |->
                   IF p \in DOMAIN ResetValues THEN ResetValues[p]
                   ELSE params[p] ]
  /\ enabled' = [ e \in Effects |->
                    IF e = "overdrive" THEN enabled[e] ELSE FALSE ]
  /\ fstate' = [ s \in StateNames |->
                   IF s \in ResetClears THEN "zero" ELSE fstate[s] ]
  /\ reverbInitialized' = FALSE
  /\ comp' = ResetComp
  /\ lfo' = [ e \in LfoEffects |-> 0 ]

Reset ==
  /\ ~crashed
  /\ ResetStores
  /\ UNCHANGED << running, res, renderBufferFrames, fmt, ctl, nthreads, thr,
                  stopped, crashed, calls, fx, dl, wah, gui, acc, od >>

\* The chain of AudioLoop 894-935 run over one packet, stage after stage.
RECURSIVE ChainState(_, _)
ChainState(n, fs) ==
  IF n > Len(ChainOrder) THEN fs
  ELSE ChainState(n + 1, IF EffectRuns(ChainOrder[n])
                           THEN AfterEffect(ChainOrder[n], fs, params)
                           ELSE fs)

\* One iteration of the audio loop on a 32-bit packet, taken as one step: what
\* the chain leaves in the filter state.
ProcessPacket ==
  /\ ~crashed
  /\ fmt.bits = 32
  /\ fstate' = ChainState(1, fstate)
  /\ reverbInitialized' = (reverbInitialized \/ EffectRuns("reverb"))
  /\ UNCHANGED << running, res, renderBufferFrames, fmt, enabled, ctl, nthreads,
                  thr, stopped, crashed, params, calls, fx, dl, comp, lfo, wah, gui, acc, od >>

\* ------------------------------------------------------------- specifications
ControlStep ==
  \/ StartProcessingEnter
  \/ StartProcessingStop
  \/ Stop
  \/ CleanupBegin
  \/ CleanupRelease
  \/ StartProcessingInitialize
  \/ SetupAudioStep
  \/ StartProcessingSpawn
  \/ StartProcessingReport
  \/ StartProcessingReturn

Next == ControlStep \/ \E t \in Threads : AudioStep(t)

\* The session life cycle: the control thread against the audio threads.
Spec == Init /\ [][Next]_vars

\* The audio threads are scheduled: a thread that can take a step takes one.
FairSpec == Spec /\ \A t \in Threads : WF_vars(AudioStep(t))

\* One session, as StartProcessingSpawn leaves it (every pointer acquired, the
\* format the endpoint reported, the thread about to run), with the control
\* surface switching effects on and off while the thread processes buffers.
InitChain ==
  /\ running = FALSE
  /\ res = [ r \in Resources |-> TRUE ]
  /\ renderBufferFrames = RenderBufferSize
  /\ fmt \in [ bits : BitsValues, channels : ChannelValues ]
  /\ enabled = [ e \in Effects |-> FALSE ]
  /\ ctl = [ IdleCtl EXCEPT !.outcome = "started" ]
  /\ nthreads = 1
  /\ thr = [ t \in Threads |-> IF t = 1 THEN [ NoThread EXCEPT !.pc = "start" ]
                                ELSE NoThread ]
  /\ stopped = FALSE
  /\ crashed = FALSE
  /\ params \in { Constructed(v) : v \in ConstructedMainVolume }
  /\ fstate = ConstructedState
  /\ reverbInitialized = FALSE
  /\ calls = 0
  /\ fx = IdleFx
  /\ od = IdleOverdrive
  /\ acc = IdleAccess
  /\ gui = ConstructedGui
  /\ wah = ConstructedWah
  /\ lfo = ConstructedLfo
  /\ comp = ConstructedComp
  /\ dl = ConstructedDl

NextChain ==
  \/ \E t \in Threads : AudioStep(t)
  \/ \E e \in Effects, b \in BOOLEAN : SetEnabled(e, b)

SpecChain == InitChain /\ [][NextChain]_vars

\* The control surface against the processing of whole packets: a session with
\* a float format, its thread in the loop, the setters, the enable switches and
\* Reset() called between packets.
InitParams ==
  /\ running = TRUE
  /\ res = [ r \in Resources |-> TRUE ]
  /\ renderBufferFrames = RenderBufferSize
  /\ fmt \in [ bits : { 32 }, channels : ChannelValues ]
  /\ enabled = [ e \in Effects |-> FALSE ]
  /\ ctl = [ IdleCtl EXCEPT !.outcome = "started" ]
  /\ nthreads = 1
  /\ thr = [ t \in Threads |-> IF t = 1 THEN [ NoThread EXCEPT !.pc = "loop" ]
                                ELSE NoThread ]
  /\ stopped = FALSE
  /\ crashed = FALSE
  /\ params \in { Constructed(v) : v \in ConstructedMainVolume }
  /\ fstate = ConstructedState
  /\ reverbInitialized = FALSE
  /\ calls = 0
  /\ fx = IdleFx
  /\ od = IdleOverdrive
  /\ acc = IdleAccess
  /\ gui = ConstructedGui
  /\ wah = ConstructedWah
  /\ lfo = ConstructedLfo
  /\ comp = ConstructedComp
  /\ dl = ConstructedDl

NextParams ==
  \/ \E e \in Effects, b \in BOOLEAN : SetEnabled(e, b)
  \/ \E p \in ParamNames \ WahParamNames, v \in ArgValues : SetParameter(p, v)
  \/ \E p \in WahParamNames, v \in ArgValues : SetWahParameter(p, v)
  \/ Reset
  \/ ProcessPacket

SpecParams == InitParams /\ [][NextParams]_vars

\* ------------------------------------------------------------- claims
\* Thread t has started and has not left its loop: it is in its start-up
\* sequence, at the loop test, or inside an iteration.
InLoop(t) == thr[t].pc \notin { "none", "exit", "done" }

\* C1: during a restart, Cleanup releases (and nulls) a capture/render
\* interface, client or format only after every earlier audio thread has left
\* its loop: no step releases one of them while a thread is in its start-up
\* sequence or inside the loop.
C1_ReleaseOnlyAfterLoopLeft ==
  [][ (\E r \in LoopResources : res[r] /\ ~res'[r])
        => \A t \in Threads : ~InLoop(t) ]_vars

\* C2: once Stop() has set running to false, and unless a later StartProcessing
\* is issued, every audio thread eventually leaves its loop and ends.
C2_StopLeadsToExit ==
  \A t \in Threads :
    (stopped /\ thr[t].pc # "none")
      ~> (thr[t].pc = "done" \/ ~stopped \/ crashed)

\* C2, the poll: once Stop() has set running to false, and unless a later
\* StartProcessing is issued, a thread that tests the flag (line 854) finds it
\* false and leaves its loop.
C2_StopObservedAtNextPoll ==
  [][ \A t \in Threads :
        (stopped /\ stopped' /\ thr[t].pc = "loop" /\ thr'[t].pc # "loop")
          => thr'[t].pc = "exit" ]_vars

\* C7: when a capture/render primitive fails inside the loop, the thread's
\* shutdown (the step that ends it) leaves the session's I/O resources released.
C7_FaultShutdownReleases ==
  [][ \A t \in Threads :
        (thr[t].fault /\ thr[t].pc = "exit" /\ thr'[t].pc = "done")
          => \A r \in SessionResources : ~res'[r] ]_vars

\* C8: when StartProcessing returns after Initialize or SetupAudio failed, it
\* has spawned no thread, running is false, every session resource is released
\* and the failure has been reported.
C8_FailedStartLeavesStopped ==
  (ctl.pc = "return" /\ ctl.outcome = "failed")
    => /\ nthreads = ctl.entryThreads
       /\ ~running
       /\ \A r \in SessionResources : ~res[r]
       /\ ctl.reported

\* The frames the render buffer has free according to the padding thread t read.
Headroom(t) == renderBufferFrames - thr[t].numFramesPadding

\* Thread t has read the padding of the iteration in progress and gone on.
PastPadding(t) ==
  thr[t].pc \in { "render_get", "copy", "effect", "volume", "render_release",
                  "cap_release" }

\* C9: a render buffer is requested (and so written and committed) only when
\* the frames fit the headroom; with too little headroom the iteration takes
\* the skip path, on which no render buffer is requested or committed and the
\* capture packet is released.
C9_RenderOnlyWithHeadroom ==
  \A t \in Threads :
    /\ (thr[t].pc = "render_get" \/ thr[t].gotRender \/ thr[t].committed)
         => thr[t].numFramesAvailable <= Headroom(t)
    /\ (PastPadding(t) /\ thr[t].numFramesAvailable > Headroom(t))
         => thr[t].skipped /\ thr[t].pc = "cap_release"
    /\ thr[t].skipped
         => /\ ~thr[t].gotRender /\ ~thr[t].committed
            /\ thr[t].pc \in { "cap_release", "loop", "exit", "done" }
            /\ (thr[t].pc # "cap_release" => ~thr[t].capHeld)

\* C9's case: a packet larger than the headroom was skipped and released.
C9_Witness ==
  \E t \in Threads :
    /\ thr[t].skipped /\ thr[t].pc = "loop" /\ ~thr[t].capHeld
    /\ thr[t].numFramesAvailable > Headroom(t)

\* C10 as stated: a buffer is committed only in an iteration without a failed
\* primitive and only after the chain and the master volume were applied to it.
C10_CommitOnlyAfterChain ==
  \A t \in Threads :
    thr[t].committed => (~thr[t].fault /\ thr[t].volumeApplied)

\* C10 as amended: a buffer is committed only in an iteration without a failed
\* primitive; a 32-bit buffer only after every stage of the chain and the
\* master volume; a buffer of another width as the unprocessed copy.
C10_CommitWholeOrRaw ==
  \A t \in Threads :
    /\ thr[t].committed => ~thr[t].fault
    /\ thr[t].fault => thr[t].pc \in { "exit", "done" }
    /\ (thr[t].committed \/ thr[t].pc = "render_release")
         => IF thr[t].isFloat
              THEN thr[t].volumeApplied /\ thr[t].lastApplied = "volume"
                   /\ thr[t].stage = 0
              ELSE ~thr[t].volumeApplied /\ thr[t].lastApplied = "none"

\* C10's case: a 32-bit buffer was committed after the whole chain while an
\* earlier iteration's failure is not in play.
C10_Witness ==
  \E t \in Threads :
    thr[t].committed /\ thr[t].isFloat /\ thr[t].volumeApplied

\* The order the specification fixes for the chain, master volume last.
SpecOrder ==
  << "tremolo", "chorus", "blues", "overdrive", "compressor", "reverb",
     "warm", "wah", "volume" >>

Rank(e) ==
  IF e = "none" THEN 0
  ELSE CHOOSE i \in 1..Len(SpecOrder) : SpecOrder[i] = e

\* C3: within a buffer each effect applied comes later in the fixed order than
\* the one applied before it, and once the master volume is applied nothing
\* follows it: it is the last thing applied to a committed 32-bit buffer.
C3_ChainOrder ==
  \A t \in Threads :
    /\ thr[t].lastApplied # "none"
         => Rank(thr[t].prevApplied) < Rank(thr[t].lastApplied)
    /\ thr[t].volumeApplied => thr[t].lastApplied = "volume"

\* C3's case: blues-drive then overdrive ran on a buffer, both enabled.
C3_Witness ==
  \E t \in Threads :
    thr[t].prevApplied = "blues" /\ thr[t].lastApplied = "overdrive"


\* The ranges the parameters are documented to stay in, in hundredths: a rate
\* in [0.1, 50], a depth, mix or tone in [0, 1], a gain or drive in [0.1, 10].
DocumentedRange ==
  [ tremoloRate |-> << 10, 5000 >>, chorusRate |-> << 10, 5000 >>,
    tremoloDepth |-> << 0, 100 >>, chorusDepth |-> << 0, 100 >>,
    wahLfoDepth |-> << 0, 100 >>, overdriveMix |-> << 0, 100 >>,
    reverbMix |-> << 0, 100 >>, wahMix |-> << 0, 100 >>,
    overdriveTone |-> << 0, 100 >>, bluesTone |-> << 0, 100 >>,
    compTone |-> << 0, 100 >>, warmTone |-> << 0, 100 >>,
    bluesGain |-> << 10, 1000 >>, overdriveDrive |-> << 10, 1000 >> ]

\* C4: whatever setters were called with whatever arguments, every stored rate,
\* depth, mix, tone, gain and drive lies inside its documented range.
C4_StoredInsideRange ==
  \A p \in DOMAIN DocumentedRange :
    /\ DocumentedRange[p][1] <= params[p]
    /\ params[p] <= DocumentedRange[p][2]

\* C5: a call of Reset() leaves every parameter that has a constructed value at
\* that value and every enabled flag cleared, whatever was set before.
C5_ResetRestoresDefaults ==
  [][ Reset =>
        /\ \A p \in ParamNames \ { "mainVolume" } :
             params'[p] = Constructed(0)[p]
        /\ \A e \in Effects : ~enabled'[e] ]_vars

\* C6: a call of Reset() leaves every LFO phase, one-pole state, envelope,
\* biquad history and the chorus delay buffer zero, and leaves the reverb to
\* rebuild its buffers on its next use.
C6_ResetZeroesState ==
  [][ Reset =>
        /\ \A s \in StateNames \ { "reverbCombBuffer", "reverbCombFilterStore",
                                  "reverbAllpassBuffer" } : fstate'[s] = "zero"
        /\ ~reverbInitialized' ]_vars

\* A step of the control surface: Reset(), or a setter or enable switch.
ControlSurfaceStep ==
  \/ Reset
  \/ \E e \in Effects, b \in BOOLEAN : SetEnabled(e, b)
  \/ \E p \in ParamNames \ WahParamNames, v \in ArgValues : SetParameter(p, v)
  \/ \E p \in WahParamNames, v \in ArgValues : SetWahParameter(p, v)

\* C11: no operation of the control surface (a setter, an enable switch,
\* Reset()) writes any filter state or the reverb-initialized flag.
C11_ControlNeverWritesState ==
  [][ ControlSurfaceStep => UNCHANGED << fstate, reverbInitialized >> ]_vars

\* ------------------------------------------------------------- one ApplyX call
\* The parameter members each effect works with.
ParamsOf(e) ==
  CASE e = "tremolo" -> { "tremoloRate", "tremoloDepth" }
    [] e = "chorus" -> { "chorusRate", "chorusDepth", "chorusFeedback",
                         "chorusWidth" }
    [] e = "blues" -> { "bluesGain", "bluesTone", "bluesLevel" }
    [] e = "overdrive" -> { "overdriveDrive", "overdriveThreshold",
                            "overdriveTone", "overdriveMix" }
    [] e = "compressor" -> { "compLevel", "compTone", "compAttackMs",
                             "compSustainMs" }
    [] e = "reverb" -> { "reverbSize", "reverbDamping", "reverbWidth",
                         "reverbMix" }
    [] e = "warm" -> { "warmAmount", "warmTone", "warmSaturation" }
    [] e = "wah" -> WahParamNames

\* The members an effect reads inside its sample loop instead of copying them
\* into a local before the loop: bluesLevel (AudioProcessor.cpp 553), compLevel
\* and compTone (625, 641-642), every wahState parameter (696-712, 736-737,
\* 746). Tremolo (122-123), chorus (140-143), overdrive (187-190), reverb
\* (307-319) and warm (364-366) read theirs before the loop.
ReadsLive(e) ==
  CASE e = "blues" -> { "bluesLevel" }
    [] e = "compressor" -> { "compLevel", "compTone" }
    [] e = "wah" -> WahParamNames
    [] OTHER -> {}

\* The values the code of one frame works with: the member as it is now for a
\* member read in the loop, the copy taken when the call began for the rest.
ValuesRead(e, snap, prm) ==
  [ p \in ParamNames |-> IF p \in ReadsLive(e) THEN prm[p] ELSE snap[p] ]

\* ApplyX(buffer, n) is entered (lines 121, 137, 184, 276-279, 361, 456, 560,
\* 663): a disabled effect, a missing format or a mono reverb returns at once;
\* otherwise the locals are set up, and reverb sizes its delay lines if it has
\* not yet (281-304), before the sample loop.
ApplyBegin(e, n) ==
  /\ ~crashed
  /\ ~fx.active
  /\ fx' = [ IdleFx EXCEPT !.e = e, !.n = n, !.on = enabled[e],
                           !.active = EffectRuns(e),
                           !.snap = IF EffectRuns(e) THEN params ELSE @,
                           !.used = IF EffectRuns(e) THEN params ELSE @ ]
  /\ reverbInitialized' = (reverbInitialized
                             \/ (e = "reverb" /\ EffectRuns(e)))
  /\ fstate' = IF e = "reverb" /\ EffectRuns(e) /\ ~reverbInitialized
                 THEN AfterSizing(fstate) ELSE fstate
  /\ UNCHANGED << running, res, renderBufferFrames, fmt, enabled, ctl, nthreads,
                  thr, stopped, crashed, params, calls, dl, comp, lfo, wah, gui, acc, od >>

\* One pass of the sample loop of ApplyX: the frame is stored into and the
\* effect's state moves on (chorusPhase is stored after the loop, line 180).
ApplySample ==
  /\ ~crashed
  /\ fx.active
  /\ fx.i < fx.n
  /\ LET read == ValuesRead(fx.e, fx.snap, params)
         after == AfterEffect(fx.e, fstate, read)
     IN /\ fx' = [ fx EXCEPT !.i = @ + 1, !.used = read,
                             !.buf[fx.i + 1] = Append(@, fx.e) ]
        /\ fstate' = [ after EXCEPT !["chorusPhase"] = fstate["chorusPhase"] ]
  /\ UNCHANGED << running, res, renderBufferFrames, fmt, enabled, ctl, nthreads,
                  thr, stopped, crashed, params, reverbInitialized, calls, dl, comp, lfo, wah, gui, acc, od >>

\* ApplyX returns after its last frame.
ApplyEnd ==
  /\ ~crashed
  /\ fx.active
  /\ fx.i = fx.n
  /\ fx' = [ fx EXCEPT !.active = FALSE ]
  /\ fstate' = IF fx.e = "chorus" /\ fx.n > 0
                 THEN [ fstate EXCEPT !["chorusPhase"] =
                          AfterEffect("chorus", fstate, fx.snap)["chorusPhase"] ]
                 ELSE fstate
  /\ UNCHANGED << running, res, renderBufferFrames, fmt, enabled, ctl, nthreads,
                  thr, stopped, crashed, params, reverbInitialized, calls, dl, comp, lfo, wah, gui, acc, od >>

\* The parameters of the effect whose call is in its sample loop.
InFlightParams == IF fx.active THEN ParamsOf(fx.e) ELSE {}

\* Calls of ApplyX on buffers of every length, frame by frame, with the
\* switches flipped at any time and the setters of the running effect's own
\* parameters called between its frames (the other parameters are not read by
\* the call).
NextApply ==
  \/ \E e \in Effects, n \in 0..MaxFrames : ApplyBegin(e, n)
  \/ ApplySample
  \/ ApplyEnd
  \/ \E e \in Effects, b \in BOOLEAN : SetEnabled(e, b)
  \/ \E p \in InFlightParams \ WahParamNames, v \in ArgValues :
       SetParameter(p, v)
  \/ \E p \in InFlightParams \cap WahParamNames, v \in ArgValues :
       SetWahParameter(p, v)

SpecApply == InitParams /\ [][NextApply]_vars

\* C12: inside a call of ApplyX the code of every frame works with the values
\* the effect's parameters had when the call began, whatever setter was called
\* since.
C12_ParametersTakenOnce ==
  (fx.e # "none" /\ fx.i > 0)
    => \A p \in ParamsOf(fx.e) : fx.used[p] = fx.snap[p]

\* C13: a call of ApplyX with numFrames = 0, or made while effect X is
\* disabled, stores into no sample of the buffer, for every effect and every
\* channel count.
C13_NothingToDoLeavesBuffer ==
  (fx.e # "none" /\ (fx.n = 0 \/ ~fx.on))
    => \A k \in 1..MaxFrames : fx.buf[k] = << >>

\* A call on a full buffer made while the effect was disabled has returned,
\* after an earlier moment at which the effect was on.
C13_Witness ==
  /\ fx.e # "none"
  /\ ~fx.on
  /\ ~fx.active
  /\ fx.n = MaxFrames
  /\ calls > 0
  /\ \A k \in 1..MaxFrames : fx.buf[k] = << >>

\* ------------------------------------------------------------- delay lines
\* The sample rates followed: 0, one at which every scaled length truncates to
\* 0, and one at which every delay line has at least one cell.
SampleRates == { 0, 20, 200 }

\* AudioProcessor.cpp 289-297: the length of a reverb delay line, its tuning
\* scaled by sampleRate / 44100 and truncated.
ScaledLength(l, rate) == (Tunings[l] * rate) \div 44100

\* AudioProcessor.cpp 146-147: the chorus delay of 40 ms in samples.
MaxDelaySamples(rate) == (rate * 40) \div 1000

\* ReverbComb::setBuffer, ReverbAllpass::setBuffer (AudioProcessor.h 29-33,
\* 61-65).
setBuffer(size) == [ bufferSize |-> size, bufferIndex |-> 0, stored |-> FALSE ]

\* process() with the index left where ++bufferIndex put it.
processNoWrap(ln) ==
  [ ln EXCEPT !.bufferIndex = @ + 1, !.stored = TRUE ]

\* ReverbComb::process, ReverbAllpass::process (AudioProcessor.h 44-50, 71-77):
\* buffer[bufferIndex] is read and stored into, then
\* if (++bufferIndex >= bufferSize) bufferIndex = 0.
process(ln) ==
  [ ln EXCEPT !.bufferIndex = IF @ + 1 >= ln.bufferSize THEN 0 ELSE @ + 1,
              !.stored = TRUE ]

\* process() on this line reads and writes buffer[bufferIndex] outside the
\* bufferSize cells of its storage.
OutOfStorage(ln) == ln.bufferIndex >= ln.bufferSize

\* k samples through one delay line.
RECURSIVE ProcessFrames(_, _)
ProcessFrames(ln, k) ==
  IF k = 0 THEN ln ELSE ProcessFrames(process(ln), k - 1)

\* AudioProcessor.cpp 177-178, k frames on: chorusDelayIndex++, and back to 0
\* once chorusDelayIndex * channels reaches the size of chorusDelayBuffer.
RECURSIVE ChorusIndexAfter(_, _, _)
ChorusIndexAfter(idx, size, k) ==
  IF k = 0 THEN idx
  ELSE ChorusIndexAfter(IF (idx + 1) * fmt.channels >= size THEN 0 ELSE idx + 1,
                        size, k - 1)

\* The test with its outcome taken for true whatever the flag.
NeedsSizingAlways == TRUE

\* AudioProcessor.cpp 282, 'if (!reverbInitialized)': the delay lines are sized
\* by the call that finds the flag clear.
NeedsSizing == ~reverbInitialized

\* What a call that has just been entered knows of itself.
CallOf(e, n) ==
  [ dl EXCEPT !.call = e, !.on = enabled[e], !.frames = n, !.empty = FALSE,
              !.wrote = FALSE,
              !.oob = FALSE, !.hung = FALSE ]

\* SetSampleRate(rate), AudioProcessor.cpp 1079-1081: any rate is stored.
SetSampleRate(r) ==
  /\ ~crashed
  /\ ~dl.hung
  /\ dl' = [ dl EXCEPT !.sampleRate = r ]
  /\ UNCHANGED << running, res, renderBufferFrames, fmt, enabled, ctl, nthreads,
                  thr, stopped, crashed, params, fstate, reverbInitialized,
                  calls, fx, comp, lfo, wah, gui, acc, od >>

\* ApplyReverb(buffer, n), AudioProcessor.cpp 275-358, as one step. After the
\* guards (276-279) the delay lines are sized if reverbInitialized is clear
\* (281-304); then every frame goes through every comb and allpass (332-343)
\* and is stored back (350-351). process() on a line of bufferSize 0 reads and
\* writes buffer[0] of an empty vector: the process dies there, or the access
\* lands in memory the vector still owns from an earlier, longer sizing and
\* the call carries on.
ApplyReverbCall(n) ==
  /\ ~crashed
  /\ ~dl.hung
  /\ IF ~EffectRuns("reverb")
       THEN /\ dl' = CallOf("reverb", n)
            /\ UNCHANGED << crashed, fstate, reverbInitialized >>
       ELSE LET sized == IF NeedsSizing
                           THEN [ l \in Lines |->
                                    setBuffer(ScaledLength(l, dl.sampleRate)) ]
                           ELSE dl.line
                fs == IF NeedsSizing THEN AfterSizing(fstate) ELSE fstate
                bad == n > 0 /\ \E l \in Lines : OutOfStorage(sized[l])
            IN /\ reverbInitialized' = TRUE
               /\ crashed' \in (IF bad THEN BOOLEAN ELSE { FALSE })
               /\ dl' = [ CallOf("reverb", n) EXCEPT
                            !.line = IF crashed' THEN sized
                                     ELSE [ l \in Lines |->
                                              ProcessFrames(sized[l], n) ],
                            !.empty = \E l \in Lines : sized[l].bufferSize = 0,
                            !.wrote = n > 0 /\ ~crashed',
                            !.oob = bad ]
               /\ fstate' = IF n > 0 /\ ~crashed'
                              THEN AfterEffect("reverb", fs, params) ELSE fs
  /\ UNCHANGED << running, res, renderBufferFrames, fmt, enabled, ctl, nthreads,
                  thr, stopped, params, calls, fx, comp, lfo, wah, gui, acc, od >>

\* ApplyChorus(buffer, n), AudioProcessor.cpp 136-181, as one step. The delay
\* buffer is assigned when it is shorter than maxDelaySamples * channels
\* (148-151). With an empty buffer the first sample never gets past line 163
\* when the delay is positive (readPos < 0 and the loop adds 0 / channels), and
\* takes idxA % 0 at line 167 when it is 0 (sampleRate 0): the call returns in
\* neither case, and line 171 is not reached.
ApplyChorusCall(n) ==
  /\ ~crashed
  /\ ~dl.hung
  /\ IF ~EffectRuns("chorus")
       THEN /\ dl' = CallOf("chorus", n)
            /\ UNCHANGED << crashed, fstate >>
       ELSE LET need == MaxDelaySamples(dl.sampleRate) * fmt.channels
                assign == dl.chorusSize < need
                size == IF assign THEN need ELSE dl.chorusSize
                idx == IF assign THEN 0 ELSE dl.chorusDelayIndex
                stuck == n > 0 /\ size = 0
            IN /\ crashed' = (stuck /\ dl.sampleRate = 0)
               /\ dl' = [ CallOf("chorus", n) EXCEPT
                            !.chorusSize = size,
                            !.chorusDelayIndex =
                               IF stuck THEN idx
                               ELSE ChorusIndexAfter(idx, size, n),
                            !.empty = size = 0,
                            !.wrote = n > 0 /\ ~stuck,
                            !.hung = stuck /\ dl.sampleRate > 0 ]
               /\ fstate' = IF n > 0 /\ ~stuck
                              THEN AfterEffect("chorus", fstate, params)
                              ELSE fstate
  /\ UNCHANGED << running, res, renderBufferFrames, fmt, enabled, ctl, nthreads,
                  thr, stopped, params, reverbInitialized, calls, fx, comp, lfo, wah, gui, acc, od >>

\* A processor whose sample rate was set, with chorus and reverb switched
\* either way.
InitRing ==
  /\ running = TRUE
  /\ res = [ r \in Resources |-> TRUE ]
  /\ renderBufferFrames = RenderBufferSize
  /\ fmt \in [ bits : { 32 }, channels : ChannelValues ]
  /\ enabled \in { f \in [ Effects -> BOOLEAN ] :
                     \A e \in Effects \ { "chorus", "reverb" } : ~f[e] }
  /\ ctl = [ IdleCtl EXCEPT !.outcome = "started" ]
  /\ nthreads = 1
  /\ thr = [ t \in Threads |-> IF t = 1 THEN [ NoThread EXCEPT !.pc = "loop" ]
                                ELSE NoThread ]
  /\ stopped = FALSE
  /\ crashed = FALSE
  /\ params = Constructed(100)
  /\ fstate = ConstructedState
  /\ reverbInitialized = FALSE
  /\ calls = 0
  /\ fx = IdleFx
  /\ od = IdleOverdrive
  /\ acc = IdleAccess
  /\ gui = ConstructedGui
  /\ wah = ConstructedWah
  /\ lfo = ConstructedLfo
  /\ comp = ConstructedComp
  /\ dl \in { [ ConstructedDl EXCEPT !.sampleRate = r ] : r \in SampleRates }

\* Calls of ApplyChorus and ApplyReverb on buffers of every length, with the
\* sample rate set, the two effects switched and Reset() called in between.
NextRing ==
  \/ \E r \in SampleRates : SetSampleRate(r)
  \/ \E n \in 0..MaxFrames : ApplyReverbCall(n)
  \/ \E n \in 0..MaxFrames : ApplyChorusCall(n)
  \/ \E e \in { "chorus", "reverb" }, b \in BOOLEAN : SetEnabled(e, b)
  \/ Reset

SpecRing == InitRing /\ [][NextRing]_vars

\* C14: a call of an effect whose delay storage has zero length returns,
\* having left the audio buffer as it was, read and written nothing outside
\* its storage, and not looped forever.
C14_EmptyStorageIsNoOp ==
  dl.empty => (~dl.wrote /\ ~dl.oob /\ ~dl.hung /\ ~crashed)

\* C15: on a 1-channel format ApplyReverb with reverb enabled returns the
\* buffer unmodified, and neither sizes nor advances any reverb state:
\* reverbInitialized stays clear and the delay lines stay as constructed.
C15_MonoReverbIsNoOp ==
  fmt.channels = 1
    => /\ ~reverbInitialized
       /\ \A l \in Lines : dl.line[l] = ConstructedLine
       /\ \A s \in { "reverbCombBuffer", "reverbCombFilterStore",
                     "reverbAllpassBuffer" } : fstate[s] = "zero"
       /\ (dl.call = "reverb" => ~dl.wrote)

\* ApplyReverb was called on a full buffer with reverb enabled on a 1-channel
\* format.
C15_Witness ==
  /\ fmt.channels = 1
  /\ dl.call = "reverb"
  /\ dl.on
  /\ dl.frames = MaxFrames
  /\ ~dl.wrote
  /\ ~reverbInitialized

\* No effect has processed the packet of thread t's iteration.
NoEffectApplied(t) ==
  /\ thr[t].lastApplied \in { "none", "volume" }
  /\ thr[t].prevApplied = "none"

\* Every sample of the packet of thread t's iteration was multiplied by the
\* master volume.
ScaledByVolume(t) ==
  /\ thr[t].volumeApplied
  /\ thr[t].vol = params["mainVolume"]
  /\ thr[t].totalSamples = thr[t].numFramesAvailable * fmt.channels

\* C16 as stated: a rendered packet that no effect processed holds every
\* captured sample multiplied by the master volume, for every frame count and
\* channel count.
C16_BypassScalesByVolume ==
  \A t \in Threads :
    (thr[t].committed /\ NoEffectApplied(t)) => ScaledByVolume(t)

\* C16: on a 32-bit format, a rendered packet that no effect processed holds
\* every captured sample multiplied by the master volume, for every frame
\* count and channel count; on any other format it holds the captured samples
\* as they are.
C16_BypassScalesFloatByVolume ==
  \A t \in Threads :
    (thr[t].committed /\ NoEffectApplied(t))
      => IF fmt.bits = 32 THEN ScaledByVolume(t) ELSE ~thr[t].volumeApplied

\* A full 2-channel float packet was rendered, no effect having run, at a
\* master volume other than 1.
C16_Witness ==
  \E t \in Threads :
    /\ thr[t].committed
    /\ NoEffectApplied(t)
    /\ fmt.bits = 32
    /\ fmt.channels = 2
    /\ thr[t].numFramesAvailable = MaxFrames
    /\ thr[t].vol = 250
    /\ thr[t].totalSamples = 2 * MaxFrames

\* ------------------------------------------------------------- compressor
\* Stage 1 of ApplyCompressor (AudioProcessor.cpp 588-598): where the envelope
\* can stand after a sample. A sample no louder than the knee's lower edge
\* leaves an envelope that was below it below; otherwise the envelope moves
\* towards the sample by the attack or release coefficient and may end on
\* either side.
EnvAfter(env, loud) ==
  IF env = "below" /\ ~loud THEN { "below" } ELSE { "below", "above" }

\* Stage 2 (600-616): the gain is 1.0f below threshold - kneeWidth and less
\* above it.
GainFor(env) == IF env = "above" THEN "less" ELSE "one"

\* Stage 3 (618-622): smooth = smooth * 0.999 + gain * 0.001, which is 1 only
\* when both are.
SmoothAfter(smooth, gain) ==
  IF smooth = "one" /\ gain = "one" THEN "one" ELSE "less"

\* One sample of one channel through ApplyCompressor (587-625): envelope,
\* gain, smoothed gain, and the sample multiplied by the smoothed gain (625).
ApplyCompressorSample(loud) ==
  /\ ~crashed
  /\ EffectRuns("compressor")
  /\ \E e \in EnvAfter(comp.env, loud) :
       comp' = [ env |-> e,
                 smooth |-> SmoothAfter(comp.smooth, GainFor(e)),
                 exceeded |-> comp.exceeded \/ e = "above",
                 applied |-> SmoothAfter(comp.smooth, GainFor(e)) ]
  /\ fstate' = AfterEffect("compressor", fstate, params)
  /\ UNCHANGED << running, res, renderBufferFrames, fmt, enabled, ctl, nthreads,
                  thr, stopped, crashed, params, reverbInitialized, calls, fx,
                  dl, lfo, wah, gui, acc, od >>

\* Samples through the compressor, with the compressor switched and Reset()
\* called in between.
NextComp ==
  \/ \E loud \in BOOLEAN : ApplyCompressorSample(loud)
  \/ \E b \in BOOLEAN : SetEnabled("compressor", b)
  \/ Reset

SpecComp == InitParams /\ [][NextComp]_vars

\* C17: from the constructed state or the state Reset() leaves, the gain that
\* multiplies a channel's samples stays 1 for every sample up to the first at
\* which the channel's envelope exceeds threshold - kneeWidth.
C17_UnityGainBelowKnee ==
  (comp.applied # "none" /\ ~comp.exceeded) => comp.applied = "one"

\* ------------------------------------------------------------- LFO phases
\* The sample rate of the sessions in which the phases are followed.
LfoSampleRate == 10

\* 2 * PI in the unit of the phases: a rate of r hundredths of a hertz moves
\* the phase by 2 * PI * (r / 100) / sampleRate a sample, which is r units.
TwoPi == 100 * dl.sampleRate

\* The rate parameter of each LFO.
RateOf == [ tremolo |-> "tremoloRate", chorus |-> "chorusRate",
            wah |-> "wahLfoRate" ]

\* The phase of effect e one sample on. Tremolo (AudioProcessor.cpp 129-132)
\* and chorus (175-176, 180) add the increment and subtract 2 * PI once if the
\* sum is greater than 2 * PI; the wah (696-701) does so only when lfoRate and
\* lfoDepth are positive, and subtracts once if the sum is greater or equal.
PhaseAfter(e, ph) ==
  LET sum == ph + params[RateOf[e]]
  IN IF e = "wah"
       THEN IF params["wahLfoRate"] > 0 /\ params["wahLfoDepth"] > 0
              THEN (IF sum >= TwoPi THEN sum - TwoPi ELSE sum)
              ELSE ph
       ELSE IF sum > TwoPi THEN sum - TwoPi ELSE sum

\* One frame through ApplyTremolo, ApplyChorus or processWah. A phase that has
\* left [-2 * PI, 2 * 2 * PI] is not followed further.
LfoSample(e) ==
  /\ ~crashed
  /\ EffectRuns(e)
  /\ lfo[e] >= -TwoPi
  /\ lfo[e] <= 2 * TwoPi
  /\ lfo' = [ lfo EXCEPT ![e] = PhaseAfter(e, @) ]
  /\ fstate' = AfterEffect(e, fstate, params)
  /\ UNCHANGED << running, res, renderBufferFrames, fmt, enabled, ctl, nthreads,
                  thr, stopped, crashed, params, reverbInitialized, calls, fx,
                  dl, comp, wah, gui, acc, od >>

\* A session at LfoSampleRate.
InitLfo ==
  /\ running = TRUE
  /\ res = [ r \in Resources |-> TRUE ]
  /\ renderBufferFrames = RenderBufferSize
  /\ fmt \in [ bits : { 32 }, channels : ChannelValues ]
  /\ enabled = [ e \in Effects |-> FALSE ]
  /\ ctl = [ IdleCtl EXCEPT !.outcome = "started" ]
  /\ nthreads = 1
  /\ thr = [ t \in Threads |-> IF t = 1 THEN [ NoThread EXCEPT !.pc = "loop" ]
                                ELSE NoThread ]
  /\ stopped = FALSE
  /\ crashed = FALSE
  /\ params = Constructed(100)
  /\ fstate = ConstructedState
  /\ reverbInitialized = FALSE
  /\ calls = 0
  /\ fx = IdleFx
  /\ od = IdleOverdrive
  /\ acc = IdleAccess
  /\ gui = ConstructedGui
  /\ wah = ConstructedWah
  /\ dl = [ ConstructedDl EXCEPT !.sampleRate = LfoSampleRate ]
  /\ comp = ConstructedComp
  /\ lfo = ConstructedLfo

\* Frames through the three modulated effects, with the effects switched and
\* their rates set in between.
NextLfo ==
  \/ \E e \in LfoEffects : LfoSample(e)
  \/ \E e \in LfoEffects, b \in BOOLEAN : SetEnabled(e, b)
  \/ \E e \in { "tremolo", "chorus" }, v \in ArgValues :
       SetParameter(RateOf[e], v)
  \/ \E v \in ArgValues : SetWahParameter("wahLfoRate", v)

SpecLfo == InitLfo /\ [][NextLfo]_vars

\* C18: after every per-sample step of tremolo, chorus and auto-wah, whatever
\* rate the setters were given, the effect's LFO phase lies in [0, 2 * PI).
C18_PhaseInsideTurn ==
  \A e \in LfoEffects : 0 <= lfo[e] /\ lfo[e] < TwoPi

\* C19: a delay line of n >= 1 cells keeps bufferIndex in [0, n); a call of
\* ApplyReverb on sized lines (setFeedback, setDamp, process() for every
\* frame) leaves bufferSize as it is and moves bufferIndex on by one a frame,
\* modulo bufferSize; and after the frames of a chorus call
\* chorusDelayIndex * channels is below the size of chorusDelayBuffer.
C19_RingIndicesWrap ==
  [][ /\ \A l \in Lines :
           dl'.line[l].bufferSize >= 1
             => /\ 0 <= dl'.line[l].bufferIndex
                /\ dl'.line[l].bufferIndex < dl'.line[l].bufferSize
      /\ \A n \in 0..MaxFrames :
           (ApplyReverbCall(n) /\ EffectRuns("reverb") /\ reverbInitialized)
             => \A l \in Lines :
                  dl.line[l].bufferSize >= 1
                    => /\ dl'.line[l].bufferSize = dl.line[l].bufferSize
                       /\ dl'.line[l].bufferIndex =
                            (dl.line[l].bufferIndex + n) % dl.line[l].bufferSize
      /\ \A n \in 1..MaxFrames :
           (ApplyChorusCall(n) /\ dl'.wrote)
             => dl'.chorusDelayIndex * fmt.channels < dl'.chorusSize
    ]_vars

\* The comb's index has gone round its 5 cells and is back at 0, and the
\* chorus index has moved into its buffer.
C19_Witness ==
  /\ dl.line["combL0"].bufferSize = 5
  /\ dl.line["combL0"].bufferIndex = 0
  /\ dl.line["combL0"].stored
  /\ dl.chorusSize >= 1
  /\ dl.chorusDelayIndex >= 1
  /\ dl.chorusDelayIndex * fmt.channels < dl.chorusSize

\* C20: the call of ApplyReverb that finds reverb enabled, two channels and
\* reverbInitialized clear sizes every delay line for the sample rate and sets
\* the flag; a call that finds the flag set changes no bufferSize, clears no
\* buffer and resets no index (the index only moves on with the frames); and
\* between the calls nothing but Reset() clears the flag.
C20_SizedOncePerInitialization ==
  [][ /\ \A n \in 0..MaxFrames :
           ApplyReverbCall(n)
             => IF EffectRuns("reverb") /\ ~reverbInitialized
                  THEN /\ reverbInitialized'
                       /\ \A l \in Lines :
                            dl'.line[l].bufferSize
                              = ScaledLength(l, dl.sampleRate)
                  ELSE /\ reverbInitialized' = reverbInitialized
                       /\ \A l \in Lines :
                            /\ dl'.line[l].bufferSize = dl.line[l].bufferSize
                            /\ dl.line[l].stored => dl'.line[l].stored
                            /\ (n = 0 \/ ~EffectRuns("reverb") \/ crashed')
                                 => dl'.line[l].bufferIndex
                                      = dl.line[l].bufferIndex
                            /\ dl.line[l].bufferSize >= 1 /\ EffectRuns("reverb")
                                 => dl'.line[l].bufferIndex
                                      = (dl.line[l].bufferIndex + n)
                                          % dl.line[l].bufferSize
      /\ (reverbInitialized /\ ~reverbInitialized') => Reset
      /\ (\A n \in 0..MaxFrames : ~ApplyReverbCall(n)) => dl'.line = dl.line
    ]_vars

\* A later call of ApplyReverb has run on lines sized by an earlier one: the
\* comb's index has moved past what one call can reach.
C20_Witness ==
  /\ reverbInitialized
  /\ dl.call = "reverb"
  /\ dl.wrote
  /\ dl.line["combL0"].bufferSize = 5
  /\ dl.line["combL0"].bufferIndex > MaxFrames
  /\ dl.line["combL0"].stored

\* ------------------------------------------------------------- wah coefficients
\* The samples followed through processWah.
MaxWahSamples == 4

\* WAH_FREQ_MIN and WAH_FREQ_MAX (AudioProcessor.cpp 13-14).
WahFreqMin == 20000

WahFreqMax == 300000

\* The values 'combined' of lines 703-708 takes in the samples followed, in
\* thousandths: silence, a level that puts the target next to the constructed
\* frequency, full modulation. It lies in [0, 1] whatever the envelope and the
\* LFO do.
WahCombined == { 0, 214, 1000 }

\* The frequencies handed to setWahFrequency, in hundredths of a hertz.
WahFreqArgs == { -1450, 20000 }

\* Lines 710-712: the target frequency for a value of 'combined'.
TargetFreq(c) ==
  ((WahFreqMin + (c * (WahFreqMax - WahFreqMin)) \div 1000) * 9) \div 10
    + params["wahFreq"] \div 10

\* Line 715: smoothFreq += (targetFreq - smoothFreq) * 0.08.
SmoothedFreq(sm, c) == sm + ((TargetFreq(c) - sm) * 8) \div 100

\* fabsf(a - b) > 1.0f, in hundredths.
MoreThanOneHertz(a, b) == a - b > 100 \/ b - a > 100

\* One sample through processWah (678-738). smoothFreq is initialised from
\* wahState.freq when the declaration of line 675 is first reached; the
\* coefficients are recomputed from the smoothed frequency when it is more than
\* 1 Hz away from lastUpdatedFreq (719-722).
ProcessWahSample(c) ==
  /\ ~crashed
  /\ EffectRuns("wah")
  /\ wah.n < MaxWahSamples
  /\ LET sm0 == IF wah.started THEN wah.smoothFreq ELSE params["wahFreq"]
         sm == SmoothedFreq(sm0, c)
         upd == MoreThanOneHertz(sm, wah.lastUpdatedFreq)
     IN wah' = [ started |-> TRUE, smoothFreq |-> sm,
                 lastUpdatedFreq |-> IF upd THEN sm ELSE wah.lastUpdatedFreq,
                 computed |-> wah.computed \/ upd,
                 coeffFreq |-> IF upd THEN sm ELSE wah.coeffFreq,
                 n |-> wah.n + 1, moved |-> upd, updated |-> upd,
                 alphaDivisor |-> IF upd THEN 2 * params["wahQ"]
                                  ELSE wah.alphaDivisor ]
  /\ fstate' = AfterEffect("wah", fstate, params)
  /\ lfo' = [ lfo EXCEPT !["wah"] = PhaseAfter("wah", @) ]
  /\ UNCHANGED << running, res, renderBufferFrames, fmt, enabled, ctl, nthreads,
                  thr, stopped, crashed, params, reverbInitialized, calls, fx,
                  dl, comp, gui, acc, od >>

\* Samples through the wah, with the wah switched and its frequency set in
\* between.
NextWah ==
  \/ \E c \in WahCombined : ProcessWahSample(c)
  \/ \E b \in BOOLEAN : SetEnabled("wah", b)
  \/ \E v \in WahFreqArgs : SetWahParameter("wahFreq", v)

SpecWah == InitParams /\ [][NextWah]_vars

\* C21: updateWahCoefficients is invoked for a sample only when the smoothed
\* frequency is more than 1 Hz from the frequency of the last recomputation,
\* and after every sample the smoothed frequency is within 1 Hz of the
\* frequency the active coefficients were computed from.
C21_CoefficientsFollowFrequency ==
  wah.n > 0
    => /\ wah.updated => wah.moved
       /\ wah.computed
       /\ ~MoreThanOneHertz(wah.smoothFreq, wah.coeffFreq)

\* ------------------------------------------------------ gui: the handlers
\* gui.cpp. The window has the focus and the first gamepad is connected. The
\* keyboard hook is installed exactly while a rebind is under way
\* (WM_COMMAND installs it, every store of -1 into rebindingAction removes
\* it), so a key going down then reaches LowLevelKeyboardProc and is eaten,
\* and otherwise reaches WM_KEYDOWN; a key going up always reaches WM_KEYUP.

GuiFrame ==
  UNCHANGED << running, res, renderBufferFrames, fmt, ctl, nthreads, thr,
               stopped, crashed, calls, fx, dl, wah, acc, od >>

Lowest(S) == CHOOSE m \in S : \A n \in S : m <= n

\* The actions bound to input x, and the one the loops of WM_KEYDOWN and of
\* the mouse-down messages stop at: the first bound to x whose
\* g_actionPressed is false; -1 when there is none.
BoundTo(x) == { i \in GuiActions : gui.keyBindings[i] = x }
FirstReady(x) ==
  LET S == { i \in BoundTo(x) : ~gui.g_actionPressed[i] }
  IN  IF S = {} THEN -1 ELSE Lowest(S)

\* The first action bound to x, pressed or not: where the loops of WM_KEYUP
\* and of the mouse-up messages break.
FirstBound(x) == IF BoundTo(x) = {} THEN -1 ELSE Lowest(BoundTo(x))

\* handleAction(a), and -1 for no call: the mirrors it leaves and what it has
\* the processor store. Cases 0 to 6 flip the mirror and hand it to
\* SetXEnabled; case 7 calls Reset() and clears six of the seven mirrors.
MirrorAfter(a) ==
  IF a = -1 THEN gui.mirror
  ELSE IF a = ResetAll
       THEN [ e \in MirrorEffects |->
                IF e = "compressor" THEN gui.mirror[e] ELSE FALSE ]
       ELSE [ gui.mirror EXCEPT ![ToggleEffect[a + 1]] = ~@ ]

handleAction(a) ==
  IF a = -1
  THEN UNCHANGED << params, enabled, fstate, reverbInitialized, comp, lfo >>
  ELSE IF a = ResetAll
       THEN ResetStores
       ELSE /\ enabled' = [ enabled EXCEPT
                              ![ToggleEffect[a + 1]] = MirrorAfter(a)[ToggleEffect[a + 1]] ]
            /\ UNCHANGED << params, fstate, reverbInitialized, comp, lfo >>

\* g after input x invoked handleAction(a) (a = -1: invoked nothing): a is
\* flagged pressed, and the bookkeeping of the hold is brought up to date.
\* press tells the first message of a hold from a repetition or a poll.
Invoked(g, x, a, press) ==
  [ g EXCEPT
      !.g_actionPressed = IF a = -1 THEN @ ELSE [ @ EXCEPT ![a] = TRUE ],
      !.mirror = MirrorAfter(a),
      !.firedIn = IF a = -1 THEN @ ELSE [ @ EXCEPT ![x] = @ \cup { a } ],
      !.refired = @ \/ (a # -1 /\ a \in gui.firedIn[x]),
      !.missed = @ \/ (press /\ a = -1 /\ BoundTo(x) # {}) ]

\* A rebind completes: keyBindings[rebindingAction] = b, rebindingAction = -1,
\* the hook and timer 1 go.
Rebound(g, b) ==
  [ g EXCEPT !.keyBindings[gui.rebindingAction] = b, !.rebindingAction = -1 ]

\* A WM_KEYDOWN of key k: LowLevelKeyboardProc during a rebind, the
\* WM_KEYDOWN case of WndProc otherwise.
KeyDownMessage(g, k, press) ==
  IF gui.rebindingAction >= 0
  THEN /\ gui' = Rebound(g, k)
       /\ handleAction(-1)
  ELSE /\ gui' = Invoked(g, k, FirstReady(k), press)
       /\ handleAction(FirstReady(k))

\* The user presses key k.
KeyPress(k) ==
  /\ ~crashed
  /\ k \notin gui.held
  /\ Cardinality(gui.held) < MaxHeld
  /\ KeyDownMessage([ gui EXCEPT !.held = @ \cup { k }, !.repeating = { k } ],
                    k, TRUE)
  /\ GuiFrame

\* The keyboard repeats the WM_KEYDOWN of the key held last.
KeyRepeat(k) ==
  /\ ~crashed
  /\ k \in gui.repeating
  /\ KeyDownMessage(gui, k, FALSE)
  /\ GuiFrame

\* The user lets go of key k: WM_KEYUP.
KeyRelease(k) ==
  /\ ~crashed
  /\ k \in gui.held
  /\ LET i == FirstBound(k)
     IN  gui' = [ gui EXCEPT
                    !.held = @ \ { k },
                    !.repeating = @ \ { k },
                    !.firedIn[k] = {},
                    !.g_actionPressed =
                       IF gui.rebindingAction < 0 /\ i # -1
                       THEN [ @ EXCEPT ![i] = FALSE ] ELSE @ ]
  /\ handleAction(-1)
  /\ GuiFrame

\* WM_LBUTTONDOWN on the window: completes a rebind, or triggers an action.
MouseDown(m) ==
  /\ ~crashed
  /\ m \notin gui.held
  /\ Cardinality(gui.held) < MaxHeld
  /\ LET g == [ gui EXCEPT !.held = @ \cup { m } ]
     IN  IF gui.rebindingAction >= 0
         THEN /\ gui' = Rebound(g, m)
              /\ handleAction(-1)
         ELSE /\ gui' = Invoked(g, m, FirstReady(m), TRUE)
              /\ handleAction(FirstReady(m))
  /\ GuiFrame

\* WM_LBUTTONUP.
MouseUp(m) ==
  /\ ~crashed
  /\ m \in gui.held
  /\ LET i == FirstBound(m)
     IN  gui' = [ gui EXCEPT
                    !.held = @ \ { m },
                    !.firedIn[m] = {},
                    !.g_actionPressed =
                       IF i # -1 THEN [ @ EXCEPT ![i] = FALSE ] ELSE @ ]
  /\ handleAction(-1)
  /\ GuiFrame

\* The user presses or lets go of gamepad button b; the program learns of it
\* at its next XInputGetState.
PadDown(b) ==
  /\ ~crashed
  /\ b \notin gui.held
  /\ Cardinality(gui.held) < MaxHeld
  /\ gui' = [ gui EXCEPT !.held = @ \cup { b } ]
  /\ handleAction(-1)
  /\ GuiFrame

PadUp(b) ==
  /\ ~crashed
  /\ b \in gui.held
  /\ gui' = [ gui EXCEPT !.held = @ \ { b }, !.firedIn[b] = {} ]
  /\ handleAction(-1)
  /\ GuiFrame

\* WM_TIMER, timer 2: the loop over the actions bound to gamepad buttons. It
\* clears the flag of every action whose button is up until it reaches an
\* action whose button is down and whose flag is clear; that one it triggers,
\* and breaks.
PollActions ==
  /\ ~crashed
  /\ LET J == { i \in GuiActions : gui.keyBindings[i].type = "Joystick" }
         Down(i) == gui.keyBindings[i] \in gui.held
         F == { i \in J : Down(i) /\ ~gui.g_actionPressed[i] }
         a == IF F = {} THEN -1 ELSE Lowest(F)
         g == [ gui EXCEPT
                  !.g_actionPressed =
                     [ i \in GuiActions |->
                         IF i \in J /\ ~Down(i) /\ (a = -1 \/ i < a)
                         THEN FALSE ELSE @[i] ],
                  !.g_prevJoyState = gui.held \cap PadButtons ]
     IN  /\ gui' = IF a = -1 THEN g
                   ELSE Invoked(g, gui.keyBindings[a], a, FALSE)
         /\ handleAction(a)
  /\ GuiFrame

\* WM_TIMER, timer 1, during a rebind: a gamepad button that went down since
\* g_prevJoyState completes the rebind; otherwise g_prevJoyState is brought
\* up to date.
PollRebind ==
  /\ ~crashed
  /\ gui.rebindingAction >= 0
  /\ LET pressed == (gui.held \cap PadButtons) \ gui.g_prevJoyState
     IN  gui' = IF pressed # {}
                THEN Rebound(gui, CHOOSE b \in pressed :
                                    \A c \in pressed : b.keyOrButton <= c.keyOrButton)
                ELSE [ gui EXCEPT !.g_prevJoyState = gui.held \cap PadButtons ]
  /\ handleAction(-1)
  /\ GuiFrame

\* WM_COMMAND of the Rebind button of action a.
RebindCommand(a) ==
  /\ ~crashed
  /\ gui.rebinds < MaxRebinds
  /\ gui' = [ gui EXCEPT !.rebindingAction = a,
                         !.g_prevJoyState = gui.held \cap PadButtons,
                         !.rebinds = @ + 1 ]
  /\ handleAction(-1)
  /\ GuiFrame

NextGui ==
  \/ \E k \in Keys : KeyPress(k)
  \/ \E k \in Keys : KeyRepeat(k)
  \/ \E k \in Keys : KeyRelease(k)
  \/ \E m \in MouseButtons : MouseDown(m)
  \/ \E m \in MouseButtons : MouseUp(m)
  \/ \E b \in PadButtons : PadDown(b)
  \/ \E b \in PadButtons : PadUp(b)
  \/ PollActions
  \/ PollRebind
  \/ \E a \in GuiActions : RebindCommand(a)

SpecGui == InitParams /\ [][NextGui]_vars

\* C22: an action fires exactly once per physical press of its input: no
\* action is invoked a second time while the input that invoked it stays
\* held, and no press of a bound input, outside a rebind, goes without an
\* action.
NotInvokedAgainWhileHeld == ~gui.refired
C22_FiresOncePerPress == NotInvokedAgainWhileHeld /\ ~gui.missed

\* C28: each mirror of the GUI equals the enabled flag of its effect in the
\* processor.
C28_MirrorsEqualEnabledFlags ==
  \A e \in MirrorEffects : gui.mirror[e] = enabled[e]

\* C29: once every input is released and no rebind is under way, no action
\* bound to a key or a mouse button is still flagged pressed (the flag of an
\* action bound to a gamepad button is cleared by the next poll).
C29_NothingHeldNothingPressed ==
  (gui.held = {} /\ gui.rebindingAction < 0)
    => \A i \in GuiActions :
         gui.g_actionPressed[i] => gui.keyBindings[i].type = "Joystick"

\* ------------------------------------------------------ claims: the threads
\* Thread t is executing the capture/render loop (lines 854-953): past
\* 'running = true', not yet at the Stop calls that follow the loop.
InCaptureRenderLoop(t) ==
  thr[t].pc \notin { "none", "start", "capture_start", "render_start",
                     "set_running", "exit", "done" }

\* C23: at most one audio thread is executing the capture/render loop.
C23_OneLoopThread ==
  Cardinality({ t \in Threads : InCaptureRenderLoop(t) }) <= 1

\* C24: running is true only while an audio thread is inside its loop.
C24_RunningOnlyInsideLoop ==
  running => \E t \in Threads : InCaptureRenderLoop(t)

\* Where a thread stands between the capture GetBuffer that gave it frames
\* and the capture ReleaseBuffer of its path (879, 888 or 947).
HoldingPositions ==
  { "padding", "render_get", "copy", "effect", "volume", "render_release",
    "cap_release" }

C27_VolumeIsOneUntilSet ==
  /\ params["mainVolume"] = 100
  /\ \A t \in Threads : thr[t].volumeApplied => thr[t].vol = 100

\* ------------------------------------------------- per-channel state arrays
\* The index a sample of channel ch uses into the effect's state arrays, -1
\* when the sample touches none: ApplyOverdrive guards with 'if (ch < 2)'
\* (248), ApplyBluesDriver uses ch % 2 (523), ApplyCompressor (588-636) and
\* ApplyWarm (432-433) use ch itself.
StateIndex(e, ch) ==
  CASE e = "overdrive" -> IF ch < 2 THEN ch ELSE -1
    [] e = "blues" -> ch % 2
    [] e = "compressor" -> ch
    [] e = "warm" -> ch

InitAccess ==
  /\ running = TRUE
  /\ res = [ r \in Resources |-> TRUE ]
  /\ renderBufferFrames = RenderBufferSize
  /\ fmt \in [ bits : { 32 }, channels : 1 .. MaxChannels ]
  /\ enabled = [ e \in Effects |-> FALSE ]
  /\ ctl = [ IdleCtl EXCEPT !.outcome = "started" ]
  /\ nthreads = 1
  /\ thr = [ t \in Threads |-> IF t = 1 THEN [ NoThread EXCEPT !.pc = "loop" ]
                                ELSE NoThread ]
  /\ stopped = FALSE
  /\ crashed = FALSE
  /\ params = Constructed(100)
  /\ fstate = ConstructedState
  /\ reverbInitialized = FALSE
  /\ calls = 0
  /\ fx = IdleFx
  /\ od = IdleOverdrive
  /\ gui = ConstructedGui
  /\ acc = IdleAccess
  /\ wah = ConstructedWah
  /\ dl = ConstructedDl
  /\ comp = ConstructedComp
  /\ lfo = ConstructedLfo

\* ApplyX(buffer, n) is entered and passes its guard (enabled, buffer, format).
AccessBegin(e, n) ==
  /\ ~crashed
  /\ acc.e = "none"
  /\ EffectRuns(e)
  /\ acc' = [ IdleAccess EXCEPT !.e = e, !.n = n, !.outside = acc.outside ]
  /\ UNCHANGED << running, res, renderBufferFrames, fmt, enabled, ctl, nthreads,
                  thr, stopped, crashed, params, fstate, reverbInitialized, calls,
                  fx, dl, comp, lfo, wah, gui, od >>

\* The body of the two loops for frame i, channel ch; after the last sample
\* the call returns. A read and write past the end of an array lands in the
\* members that follow it or ends the process.
AccessSample ==
  /\ ~crashed
  /\ acc.e # "none"
  /\ LET k == StateIndex(acc.e, acc.ch)
         out == k >= StateArrayLength
         last == acc.ch + 1 = fmt.channels
         done == last /\ acc.i + 1 = acc.n
     IN  /\ acc' = [ acc EXCEPT !.index = k,
                                !.outside = @ \/ out,
                                !.ch = IF last THEN 0 ELSE @ + 1,
                                !.i = IF done THEN 0 ELSE IF last THEN @ + 1 ELSE @,
                                !.n = IF done THEN 0 ELSE @,
                                !.e = IF done THEN "none" ELSE @ ]
         /\ IF out THEN crashed' \in BOOLEAN ELSE crashed' = crashed
         /\ fstate' = IF done THEN AfterEffect(acc.e, fstate, params) ELSE fstate
  /\ UNCHANGED << running, res, renderBufferFrames, fmt, enabled, ctl, nthreads,
                  thr, stopped, params, reverbInitialized, calls, fx, dl, comp,
                  lfo, wah, gui, od >>

NextAccess ==
  \/ \E e \in StateArrayEffects, n \in 1 .. MaxFrames : AccessBegin(e, n)
  \/ AccessSample
  \/ \E e \in StateArrayEffects, b \in BOOLEAN : SetEnabled(e, b)

SpecAccess == InitAccess /\ [][NextAccess]_vars

OverdriveInputs == { -50, 0, 50 }
MaxOverdriveSamples == 2

\* Arguments of SetOverdriveThreshold and setWahQ: below zero, zero, inside.
DivisorArgs == { -100, 0, 50 }

Abs(x) == IF x < 0 THEN -x ELSE x

\* ApplyOverdrive 196-216: preEmphasisGain = 1 + (1 - threshold) * 0.8 and
\* fabsf(input * drive * preEmphasisGain); with the input and the drive in
\* hundredths and the gain in ten-thousandths the product is in units of 1e-8.
PreEmphasisGain == 10000 + (100 - params["overdriveThreshold"]) * 80
AbsSignal(x) == Abs(x * params["overdriveDrive"] * PreEmphasisGain)

\* ApplyOverdrive 220-227 for one sample: 'absSignal <= threshold' divides by
\* threshold, the other branch by (1 - threshold + 0.001).
ApplyOverdriveSample(x) ==
  /\ ~crashed
  /\ EffectRuns("overdrive")
  /\ od.n < MaxOverdriveSamples
  /\ LET threshold == params["overdriveThreshold"]
         clean == AbsSignal(x) <= threshold * 1000000
     IN  od' = [ n |-> od.n + 1,
                 branch |-> IF clean THEN "clean" ELSE "drive",
                 divisor |-> IF clean THEN 10 * threshold
                             ELSE 1000 - 10 * threshold + 1 ]
  /\ fstate' = AfterEffect("overdrive", fstate, params)
  /\ UNCHANGED << running, res, renderBufferFrames, fmt, enabled, ctl, nthreads,
                  thr, stopped, crashed, params, reverbInitialized, calls, fx,
                  dl, comp, lfo, wah, gui, acc >>

NextDivisions ==
  \/ \E x \in OverdriveInputs : ApplyOverdriveSample(x)
  \/ \E c \in WahCombined : ProcessWahSample(c)
  \/ \E e \in { "overdrive", "wah" }, b \in BOOLEAN : SetEnabled(e, b)
  \/ \E v \in DivisorArgs : SetParameter("overdriveThreshold", v)
  \/ \E v \in DivisorArgs : SetWahParameter("wahQ", v)

SpecDivisions == InitParams /\ [][NextDivisions]_vars

\* C30: whatever the setters stored, no sample is processed with a division
\* by zero: not the division of its branch in ApplyOverdrive, not the
\* division by 2 * q in updateWahCoefficients.
C30_NoDivisionByZero ==
  /\ od.branch # "none" => od.divisor # 0
  /\ wah.updated => wah.alphaDivisor # 0

====
